---- MODULE Spec2Model ----
(***************************************************************************)
(* Model of ssb-kostra-python: the region-hierarchy aggregator             *)
(* (regionshierarki.hierarki), its four mapping builders, the              *)
(* classification-variable resolver (hjelpefunksjoner) and the averaging   *)
(* wrapper gjennomsnitt_aggregerte_regioner.                               *)
(*                                                                         *)
(* Codes and column names are strings; TLC evaluates Len, \o and SubSeq on *)
(* strings, so zero padding, prefixes and suffixes are computed.           *)
(* A DataFrame is a record [cols, rows]: cols is the column list and rows  *)
(* the list of rows, each a function from column name to cell.             *)
(***************************************************************************)
EXTENDS Integers, Sequences, FiniteSets, TLC

VARIABLES
    entry,            \* the function the caller invoked
    pc,               \* position inside that call
    klass,            \* the classification registry's content for the year
    year,             \* argument of a directly called mapping builder
    mappingfil,       \* the from/to table a mapping builder returned
    raised,           \* the exception that ended the call (exc = "none": none)
    frames,           \* the DataFrame objects in memory, by reference
    inputfil,         \* hierarki's parameter: a reference into frames
    aggregeringstype, \* hierarki's parameter: the override, or None
    svar,             \* what the operator types at the input() prompt
    inputfil_copy,    \* hierarki's local: a reference into frames
    periode,          \* hierarki's local: the year taken from the table
    region_col,       \* hierarki's local: the region column detected
    valg,             \* what _select_mapping returned beside the mapping
    df_merged,        \* hierarki's local: the inner join
    klassifikasjonsvariable,
    statistikkvariable,
    df_agg,           \* hierarki's local: the grouped sums
    retur,            \* the DataFrame the call returned
    kall,             \* the collaborators called so far, in order
    editor,           \* the closure of dataframe_cell_editor_mvp
    args,             \* the arguments of a helper called directly
    prompt            \* _klass_check's locals while it asks for registry ids

\* The locals of hierarki and of gjennomsnitt_aggregerte_regioner.
hvars == <<frames, inputfil, aggregeringstype, svar, inputfil_copy, periode,
           region_col, valg, df_merged, klassifikasjonsvariable,
           statistikkvariable, df_agg, retur, kall>>

vars == <<entry, pc, klass, year, mappingfil, raised, hvars, editor, args, prompt>>

(***************************************************************************)
(* Bounds of the model.                                                    *)
(***************************************************************************)
MaxCodes == 3        \* longest code list the registry returns
MaxCorr == 2         \* longest correspondence table the registry returns
MaxRows == 2         \* most rows of a table handed to hierarki
MaxCols == 3         \* most columns of a table handed to the resolver

(***************************************************************************)
(* Generic helpers.                                                        *)
(***************************************************************************)
Range(s) == {s[i] : i \in DOMAIN s}

\* All sequences over S of length at most n without repeated elements.
DistinctSeqs(S, n) ==
    {s \in UNION {[1..k -> S] : k \in 0..n} :
        \A i, j \in DOMAIN s : i # j => s[i] # s[j]}

\* Number of positions of s that satisfy Test.
Count(s, Test(_)) == Cardinality({i \in DOMAIN s : Test(s[i])})

MapSeq(s, F(_)) == [i \in DOMAIN s |-> F(s[i])]

Frame(cols, rows) == [cols |-> cols, rows |-> rows]

(***************************************************************************)
(* String methods of pandas used by the code.                              *)
(***************************************************************************)
\* Series.str.zfill(width): pad on the left with "0" up to width; longer
\* strings are returned as they are (the codes carry no sign).
RECURSIVE zfill(_, _)
zfill(s, width) == IF Len(s) >= width THEN s ELSE zfill("0" \o s, width)

\* Series.str.endswith(suffix)
endswith(s, suffix) ==
    /\ Len(s) >= Len(suffix)
    /\ SubSeq(s, Len(s) - Len(suffix) + 1, Len(s)) = suffix

\* Series.str[:n]
prefix(s, n) == IF Len(s) <= n THEN s ELSE SubSeq(s, 1, n)

(***************************************************************************)
(* The mapping builders.  Each reads the registry (klass) and returns a    *)
(* DataFrame with the columns from, to.                                    *)
(***************************************************************************)
FromTo(from, to) == [from |-> from, to |-> to]

\* The rename sourceCode -> from, targetCode -> to and the column selection.
CorrFromTo(corr) == MapSeq(corr, LAMBDA r : FromTo(r.sourceCode, r.targetCode))

\* df[~df[col].isin(excluded)] on a list of codes.
CodesExcept(codes, excluded) == SelectSeq(codes, LAMBDA c : c \notin excluded)

CorrExcept(corr, excluded) ==
    SelectSeq(corr, LAMBDA r : r.sourceCode \notin excluded)

mapping_bydeler_oslo_uten_EAB(y) ==
    Frame(<<"from", "to">>,
          MapSeq(CodesExcept(klass.codes241, {"030116", "030117"}),
                 LAMBDA c : FromTo(c, "EAB")))

mapping_bydeler_oslo(y) ==
    Frame(<<"from", "to">>,
          MapSeq(CodesExcept(klass.codes241, {"030116", "030117", "EAB"}),
                 LAMBDA c : FromTo(c, "EAB")))

mapping_fra_kommune_til_landet(y) ==
    LET komm_fylk_korr_df ==
            MapSeq(CorrFromTo(CorrExcept(klass.corr131_104, {"9999"})),
                   LAMBDA r : FromTo(r.from, "EKA" \o prefix(r.to, 2)))
        komm_kostra_gr_df == CorrFromTo(CorrExcept(klass.corr131_112, {"9999"}))
        klass_kommuner_landet ==
            MapSeq(CodesExcept(klass.codes131, {"9999"}),
                   LAMBDA c : FromTo(c, "EAK"))
        klass_kommuner_u_oslo ==
            MapSeq(CodesExcept(klass.codes131, {"0301", "9999"}),
                   LAMBDA c : FromTo(c, "EAKUO"))
        mapping_kommuner ==
            komm_fylk_korr_df \o komm_kostra_gr_df
                \o klass_kommuner_landet \o klass_kommuner_u_oslo
    IN  Frame(<<"from", "to">>,
              MapSeq(mapping_kommuner, LAMBDA r : FromTo(zfill(r.from, 4), r.to)))

mapping_fra_kommune_til_fylkeskommune(y) ==
    Frame(<<"from", "to">>,
          MapSeq(CorrFromTo(CorrExcept(klass.corr131_127, {"9999"})),
                 LAMBDA r : FromTo(zfill(r.from, 4), zfill(r.to, 4))))

mapping_fra_fylkeskommune_til_kostraregion(y) ==
    LET fylkeskomm_kostraregion_df == CorrFromTo(klass.corr127_152)
        klass_fylkeskommuner_landet ==
            MapSeq(CodesExcept(klass.codes127, {"9900"}),
                   LAMBDA c : FromTo(c, "EAFK"))
        klass_fylkeskommuner_landet_u_oslo ==
            MapSeq(CodesExcept(klass.codes127, {"0300", "9900"}),
                   LAMBDA c : FromTo(c, "EAFKUO"))
    IN  Frame(<<"from", "to">>,
              fylkeskomm_kostraregion_df \o klass_fylkeskommuner_landet
                  \o klass_fylkeskommuner_landet_u_oslo)

(***************************************************************************)
(* What the registry can hold.  A code list names each unit once, also     *)
(* when a code is delivered without its leading zero ("301").              *)
(***************************************************************************)
Corr(src, tgt) == [sourceCode |-> src, targetCode |-> tgt]

Kommunekoder == {"301", "0301", "5001", "9999"}
Bydelskoder == {"030101", "030102", "030116", "030117", "EAB"}
Fylkeskoder == {"0300", "5000", "9900"}
Korr131_104 == {Corr("0301", "0300"), Corr("5001", "5000"), Corr("9999", "9999")}
Korr131_112 == {Corr("0301", "K1"), Corr("5001", "K2"), Corr("9999", "KX")}
Korr131_127 == {Corr("301", "300"), Corr("5001", "5000"),
                Corr("5001", "5055"), Corr("9999", "9900")}
Korr127_152 == {Corr("0300", "KFK1"), Corr("5000", "KFK2")}

UnikeKoder(S, width) ==
    {s \in DistinctSeqs(S, MaxCodes) :
        \A i, j \in DOMAIN s : i # j => zfill(s[i], width) # zfill(s[j], width)}

TomKlass ==
    [codes131 |-> <<>>, codes127 |-> <<>>, codes241 |-> <<>>,
     corr131_104 |-> <<>>, corr131_112 |-> <<>>,
     corr131_127 |-> <<>>, corr127_152 |-> <<>>]

\* The registry contents a direct call of one builder is checked against.
KlassFor(builder) ==
    CASE builder = "mapping_bydeler_oslo" ->
            {[TomKlass EXCEPT !.codes241 = k] : k \in UnikeKoder(Bydelskoder, 6)}
      [] builder = "mapping_fra_kommune_til_landet" ->
            {[TomKlass EXCEPT !.codes131 = k, !.corr131_104 = a, !.corr131_112 = b] :
                k \in UnikeKoder(Kommunekoder, 4),
                a \in DistinctSeqs(Korr131_104, MaxCorr),
                b \in DistinctSeqs(Korr131_112, MaxCorr)}
      [] builder = "mapping_fra_kommune_til_fylkeskommune" ->
            {[TomKlass EXCEPT !.corr131_127 = a] :
                a \in DistinctSeqs(Korr131_127, MaxCorr)}
      [] builder = "mapping_fra_fylkeskommune_til_kostraregion" ->
            {[TomKlass EXCEPT !.codes127 = k, !.corr127_152 = a] :
                k \in UnikeKoder(Fylkeskoder, 4),
                a \in DistinctSeqs(Korr127_152, MaxCorr)}

Builders ==
    {"mapping_bydeler_oslo", "mapping_fra_kommune_til_landet",
     "mapping_fra_kommune_til_fylkeskommune",
     "mapping_fra_fylkeskommune_til_kostraregion"}

IngenFrame == Frame(<<>>, <<>>)

None == "None"
NoError == [exc |-> "none", msg |-> "", info |-> <<>>]
Exception(exc, msg, info) == [exc |-> exc, msg |-> msg, info |-> info]
IngenValg ==
    [type |-> "", builder |-> "", join_col |-> "", replace_col |-> "",
     post_filter |-> "", rename_cols |-> {}]
Refs == {"caller", "df", "inputfil_copy", "df_working"}

\* current_slice = None
\* No helper has been called directly.
NoArgs == <<>>

\* _klass_check is not running.
NoPrompt == [cols |-> <<>>, tries |-> 0, extra_map |-> <<>>]

NoSlice == [set |-> FALSE, rows |-> <<>>]

\* The closure of the cell editor before the editor is built.
EditorIdle ==
    [df_working |-> "caller", dtypes_in |-> [c \in {} |-> ""],
     dtypes |-> [c \in {} |-> ""], change_log |-> <<>>, writes |-> <<>>,
     current_slice |-> NoSlice, filter_boxes |-> [c \in {} |-> ""],
     options |-> <<>>, filter_status |-> "", edit_status |-> "",
     callback_raised |-> NoError, log_df |-> <<>>]

\* The locals of hierarki and the editor's closure before a call has set them.
LocalsIdle ==
    /\ frames = [r \in Refs |-> IngenFrame]
    /\ inputfil = "caller"
    /\ aggregeringstype = None
    /\ svar = ""
    /\ inputfil_copy = "caller"
    /\ periode = ""
    /\ region_col = ""
    /\ valg = IngenValg
    /\ df_merged = IngenFrame
    /\ klassifikasjonsvariable = <<>>
    /\ statistikkvariable = <<>>
    /\ df_agg = IngenFrame
    /\ retur = IngenFrame
    /\ kall = <<>>
    /\ editor = EditorIdle
    /\ prompt = NoPrompt

HIdle == LocalsIdle /\ args = NoArgs

(***************************************************************************)
(* Direct calls of the mapping builders.                                   *)
(***************************************************************************)
InitMapping ==
    /\ entry \in Builders
    /\ klass \in KlassFor(entry)
    /\ year \in {"2024", "2025"}
    /\ pc = "call"
    /\ mappingfil = IngenFrame
    /\ raised = NoError
    /\ HIdle

Return(m) ==
    /\ mappingfil' = m
    /\ pc' = "returned"
    /\ UNCHANGED <<prompt, args, editor, entry, klass, year, raised, hvars>>

CallMappingBydelerOslo ==
    /\ pc = "call" /\ entry = "mapping_bydeler_oslo"
    /\ Return(mapping_bydeler_oslo(year))

CallMappingKommuneLandet ==
    /\ pc = "call" /\ entry = "mapping_fra_kommune_til_landet"
    /\ Return(mapping_fra_kommune_til_landet(year))

CallMappingKommuneFylkeskommune ==
    /\ pc = "call" /\ entry = "mapping_fra_kommune_til_fylkeskommune"
    /\ Return(mapping_fra_kommune_til_fylkeskommune(year))

CallMappingFylkeskommuneKostraregion ==
    /\ pc = "call" /\ entry = "mapping_fra_fylkeskommune_til_kostraregion"
    /\ Return(mapping_fra_fylkeskommune_til_kostraregion(year))

NextMapping ==
    \/ CallMappingBydelerOslo
    \/ CallMappingKommuneLandet
    \/ CallMappingKommuneFylkeskommune
    \/ CallMappingFylkeskommuneKostraregion

SpecMapping == InitMapping /\ [][NextMapping]_vars

(***************************************************************************)
(* Cells.  A cell is an integer, a text, Python's None (a missing value in *)
(* an object column) or pandas' NA (a missing value in a string column).   *)
(***************************************************************************)
IntV(n) == [t |-> "int", n |-> n, s |-> ""]
StrV(s) == [t |-> "str", n |-> 0, s |-> s]
NoneV == [t |-> "none", n |-> 0, s |-> ""]
NAV == [t |-> "na", n |-> 0, s |-> ""]
\* A float cell holds a signed number of units; n / Unit is its value.
FloatV(n) == [t |-> "float", n |-> n, s |-> ""]
NaNV == [t |-> "nan", n |-> 0, s |-> ""]
BoolV(b) == [t |-> "bool", n |-> IF b THEN 1 ELSE 0, s |-> ""]

isna(c) == c.t \in {"none", "na"}

\* Series.astype(str): every cell becomes its Python text.
astype_str(c) ==
    CASE c.t = "int" -> StrV(ToString(c.n))
      [] c.t = "str" -> c
      [] c.t = "none" -> StrV("None")
      [] c.t = "na" -> StrV("<NA>")

\* Series.astype("string"): text, with missing values kept missing.
astype_string(c) ==
    CASE c.t = "int" -> StrV(ToString(c.n))
      [] c.t = "str" -> c
      [] OTHER -> NAV

\* The column of a frame, as a list of cells.
Column(df, col) == [i \in DOMAIN df.rows |-> df.rows[i][col]]

\* df[col] = F(df[col]) for every col of cols that df has.
MapColumns(df, cols, F(_)) ==
    Frame(df.cols,
          [i \in DOMAIN df.rows |->
              [c \in DOMAIN df.rows[i] |->
                  IF c \in cols THEN F(df.rows[i][c]) ELSE df.rows[i][c]]])

\* Series.nunique(): the number of distinct values, missing ones left out.
nunique(cells) == Cardinality({c \in Range(cells) : ~isna(c)})

\* DataFrame.copy(): a new object with the same content, bound to ref ny.
copy_alias(ref, ny) == [ref |-> ref, frames |-> frames]

copy(ref, ny) == [ref |-> ny, frames |-> [frames EXCEPT ![ny] = frames[ref]]]

(***************************************************************************)
(* The order of Python strings (by code point) and of cells, which         *)
(* groupby's sorted result follows.                                        *)
(***************************************************************************)
Alphabet == " ,0123456789<>ABCDEFGHIJKLMNOPQRSTUVWXYZ_abcdefghijklmnopqrstuvwxyz"

CharAt(s, i) == SubSeq(s, i, i)

Ord(ch) == CHOOSE i \in 1..Len(Alphabet) : CharAt(Alphabet, i) = ch

RECURSIVE StrLess(_, _)
StrLess(a, b) ==
    IF Len(b) = 0 THEN FALSE
    ELSE IF Len(a) = 0 THEN TRUE
    ELSE IF CharAt(a, 1) # CharAt(b, 1)
         THEN Ord(CharAt(a, 1)) < Ord(CharAt(b, 1))
         ELSE StrLess(SubSeq(a, 2, Len(a)), SubSeq(b, 2, Len(b)))

CellLess(a, b) == IF a.t = "int" THEN a.n < b.n ELSE StrLess(a.s, b.s)

\* Lexicographic order of two key tuples of the same length.
RECURSIVE KeyLess(_, _)
KeyLess(a, b) ==
    IF Len(a) = 0 THEN FALSE
    ELSE IF Head(a) # Head(b) THEN CellLess(Head(a), Head(b))
         ELSE KeyLess(Tail(a), Tail(b))

(***************************************************************************)
(* hjelpefunksjoner.definere_klassifikasjonsvariable                       *)
(***************************************************************************)
\* str.split(","): the pieces between the commas.
RECURSIVE split(_, _)
split(s, piece) ==
    IF Len(s) = 0 THEN <<piece>>
    ELSE IF CharAt(s, 1) = "," THEN <<piece>> \o split(SubSeq(s, 2, Len(s)), "")
         ELSE split(SubSeq(s, 2, Len(s)), piece \o CharAt(s, 1))

\* str.strip(): without the blanks at either end.
RECURSIVE strip(_)
strip(s) ==
    IF Len(s) = 0 THEN s
    ELSE IF CharAt(s, 1) = " " THEN strip(SubSeq(s, 2, Len(s)))
    ELSE IF CharAt(s, Len(s)) = " " THEN strip(SubSeq(s, 1, Len(s) - 1))
    ELSE s

\* [var.strip() for var in answer.split(",") if var.strip()]
andre_klassifikasjonsvariable(answer) ==
    SelectSeq(MapSeq(split(answer, ""), strip), LAMBDA v : v # "")

\* Drop repeated names, keeping the last occurrence.
RECURSIVE uniq_keep_last(_)
uniq_keep_last(seq) ==
    IF seq = <<>> THEN <<>>
    ELSE IF Head(seq) \in Range(Tail(seq)) THEN uniq_keep_last(Tail(seq))
         ELSE <<Head(seq)>> \o uniq_keep_last(Tail(seq))

\* uniq: drop repeated names, keeping the first occurrence.
RECURSIVE uniq(_)
uniq(seq) ==
    IF seq = <<>> THEN <<>>
    ELSE LET front == uniq(SubSeq(seq, 1, Len(seq) - 1))
             x == seq[Len(seq)]
         IN  IF x \in Range(front) THEN front ELSE Append(front, x)

alltid_faste_klassifikasjonsvariable ==
    <<"periode", "kommuneregion", "fylkesregion", "bydelsregion">>

\* The two lists the resolver returns for a frame and an answer; the frame
\* as the in-place cast leaves it; KeyError when a name is no column.
definere_klassifikasjonsvariable(df, answer) ==
    LET felles == SelectSeq(alltid_faste_klassifikasjonsvariable,
                            LAMBDA c : c \in Range(df.cols))
        klassvar == uniq(felles \o andre_klassifikasjonsvariable(answer))
        statvar == SelectSeq(df.cols, LAMBDA c : c \notin Range(klassvar))
        ukjent == SelectSeq(klassvar, LAMBDA c : c \notin Range(df.cols))
    IN  [klassifikasjonsvariable |-> klassvar,
         statistikkvariable |-> statvar,
         raised |-> IF ukjent = <<>> THEN NoError
                    ELSE Exception("KeyError", "not in index", ukjent),
         df |-> IF ukjent = <<>>
                THEN MapColumns(df, Range(klassvar), astype_string)
                ELSE df]

(***************************************************************************)
(* regionshierarki: the steps of hierarki.                                 *)
(***************************************************************************)
\* The first region column present, however many there are.
_validate_and_normalize_region_col_first(df) ==
    LET region_cols ==
            SelectSeq(<<"kommuneregion", "fylkesregion", "bydelsregion">>,
                      LAMBDA c : c \in Range(df.cols))
        col == region_cols[1]
        width == IF col = "bydelsregion" THEN 6 ELSE 4
    IN  IF Len(region_cols) = 0
        THEN [raised |->
                 Exception("ValueError", "Fant ingen gyldig regionkolonne", <<>>),
              col |-> "", df |-> df]
        ELSE [raised |-> NoError, col |-> col,
              df |-> MapColumns(df, {col},
                                LAMBDA c : StrV(zfill(astype_str(c).s, width)))]

\* _validate_and_normalize_region_col: the region column found and the
\* frame with that column cast to text and zero padded, or the error.
_validate_and_normalize_region_col(df) ==
    LET region_cols ==
            SelectSeq(<<"kommuneregion", "fylkesregion", "bydelsregion">>,
                      LAMBDA c : c \in Range(df.cols))
        col == region_cols[1]
        width == IF col = "bydelsregion" THEN 6 ELSE 4
    IN  IF Len(region_cols) # 1
        THEN [raised |->
                 IF Len(region_cols) = 0
                 THEN Exception("ValueError", "Fant ingen gyldig regionkolonne", <<>>)
                 ELSE Exception("ValueError", "Fant flere regionskolonner", region_cols),
              col |-> "", df |-> df]
        ELSE [raised |-> NoError, col |-> col,
              df |-> MapColumns(df, {col},
                                LAMBDA c : StrV(zfill(astype_str(c).s, width)))]

valid_by_region(col) ==
    CASE col = "kommuneregion" -> {"kommune_til_landet", "kommune_til_fylkeskommune"}
      [] col = "fylkesregion" -> {"fylkeskommune_til_kostraregion"}
      [] col = "bydelsregion" -> {"bydeler_til_EAB"}
      [] OTHER -> {}

\* sorted(allowed)
sorted(S) ==
    IF S = {"kommune_til_landet", "kommune_til_fylkeskommune"}
    THEN <<"kommune_til_fylkeskommune", "kommune_til_landet">>
    ELSE IF S = {} THEN <<>> ELSE <<CHOOSE x \in S : TRUE>>

Valg(type, builder, col, post_filter, rename_cols) ==
    [type |-> type, builder |-> builder, join_col |-> col, replace_col |-> col,
     post_filter |-> post_filter, rename_cols |-> rename_cols]

\* The type of the region column, whatever the override says.
_select_mapping_default(aggtype, col) ==
    [raised |-> NoError,
     valg |->
        IF col = "kommuneregion"
        THEN Valg("kommune_til_landet", "mapping_fra_kommune_til_landet",
                  "kommuneregion", "", {})
        ELSE IF col = "fylkesregion"
        THEN Valg("fylkeskommune_til_kostraregion",
                  "mapping_fra_fylkeskommune_til_kostraregion", "fylkesregion", "", {})
        ELSE Valg("bydeler_til_EAB", "mapping_bydeler_oslo", "bydelsregion", "", {})]

\* _select_mapping up to the call of the builder: the resolved type with
\* its builder, join column, post filter and renaming, or the error.
_select_mapping(aggtype, col) ==
    LET resolved ==
            IF aggtype = None
            THEN IF col = "kommuneregion" THEN "kommune_til_landet"
                 ELSE IF col = "fylkesregion" THEN "fylkeskommune_til_kostraregion"
                 ELSE "bydeler_til_EAB"
            ELSE aggtype
        allowed == valid_by_region(col)
    IN  IF resolved \notin allowed
        THEN [raised |-> Exception("ValueError", "Inkonsekvent valg",
                                   <<resolved, col>> \o sorted(allowed)),
              valg |-> IngenValg]
        ELSE CASE resolved = "kommune_til_landet" ->
                    [raised |-> NoError,
                     valg |-> Valg(resolved, "mapping_fra_kommune_til_landet",
                                   "kommuneregion", "", {})]
               [] resolved = "kommune_til_fylkeskommune" ->
                    [raised |-> NoError,
                     valg |-> Valg(resolved, "mapping_fra_kommune_til_fylkeskommune",
                                   "kommuneregion", "endswith00",
                                   {<<"kommuneregion", "fylkesregion">>})]
               [] resolved = "fylkeskommune_til_kostraregion" ->
                    [raised |-> NoError,
                     valg |-> Valg(resolved, "mapping_fra_fylkeskommune_til_kostraregion",
                                   "fylkesregion", "", {})]
               [] resolved = "bydeler_til_EAB" ->
                    [raised |-> NoError,
                     valg |-> Valg(resolved, "mapping_bydeler_oslo",
                                   "bydelsregion", "", {})]
               [] OTHER ->
                    [raised |-> Exception("ValueError", "Ukjent aggregeringstype",
                                          <<resolved, "kommune_til_landet",
                                            "kommune_til_fylkeskommune",
                                            "fylkeskommune_til_kostraregion",
                                            "bydeler_til_EAB">>),
                     valg |-> IngenValg]

\* The builder _select_mapping calls for the resolved type.
CallBuilder(builder, y) ==
    CASE builder = "mapping_bydeler_oslo" -> mapping_bydeler_oslo(y)
      [] builder = "mapping_fra_kommune_til_landet" ->
            mapping_fra_kommune_til_landet(y)
      [] builder = "mapping_fra_kommune_til_fylkeskommune" ->
            mapping_fra_kommune_til_fylkeskommune(y)
      [] builder = "mapping_fra_fylkeskommune_til_kostraregion" ->
            mapping_fra_fylkeskommune_til_kostraregion(y)

\* left.merge(right, left_on=left_on, right_on="from", how="inner"): one row
\* per pair of a left row and a mapping row with equal keys, in left order.
RECURSIVE merge(_, _, _)
merge(left_rows, right_rows, left_on) ==
    IF left_rows = <<>> THEN <<>>
    ELSE LET l == Head(left_rows)
             hits == SelectSeq(right_rows, LAMBDA m : l[left_on] = StrV(m.from))
         IN  MapSeq(hits,
                    LAMBDA m : [c \in DOMAIN l \cup {"from", "to"} |->
                                   IF c = "from" THEN StrV(m.from)
                                   ELSE IF c = "to" THEN StrV(m.to) ELSE l[c]])
             \o merge(Tail(left_rows), right_rows, left_on)

KeyOf(row, keys) == [i \in DOMAIN keys |-> row[keys[i]]]

RECURSIVE SortKeys(_)
SortKeys(S) ==
    IF S = {} THEN <<>>
    ELSE LET m == CHOOSE x \in S : \A y \in S \ {x} : KeyLess(x, y)
         IN  <<m>> \o SortKeys(S \ {m})

\* The first cell in place of the sum.
SumCells_first(cells) == IF cells = <<>> THEN 0 ELSE Head(cells).n

RECURSIVE SumCells(_)
SumCells(cells) ==
    IF cells = <<>> THEN 0 ELSE Head(cells).n + SumCells(Tail(cells))

\* df.groupby(keys, as_index=False, observed=True)[stats].sum(): one row per
\* key combination, sorted by key; rows with a missing key are left out.
groupby_sum(df, keys, stats) ==
    LET rows == SelectSeq(df.rows,
                          LAMBDA r : \A i \in DOMAIN keys : ~isna(r[keys[i]]))
        ks == SortKeys({KeyOf(rows[i], keys) : i \in DOMAIN rows})
        Group(k) == SelectSeq(rows, LAMBDA r : KeyOf(r, keys) = k)
        Pos(c) == CHOOSE i \in DOMAIN keys : keys[i] = c
    IN  Frame(keys \o stats,
              [g \in DOMAIN ks |->
                  [c \in Range(keys) \cup Range(stats) |->
                      IF c \in Range(keys) THEN ks[g][Pos(c)]
                      ELSE IntV(SumCells(Column(Frame(df.cols, Group(ks[g])), c)))]])

\* pd.concat([a, b], ignore_index=True) of two frames with the same columns.
concat(a, b) == Frame(a.cols, a.rows \o b.rows)

Renamed(c, rename_cols) ==
    IF \E p \in rename_cols : p[1] = c
    THEN (CHOOSE p \in rename_cols : p[1] = c)[2]
    ELSE c

rename(df, rename_cols) ==
    Frame(MapSeq(df.cols, LAMBDA c : Renamed(c, rename_cols)),
          MapSeq(df.rows,
                 LAMBDA r : [c2 \in {Renamed(c, rename_cols) : c \in DOMAIN r} |->
                                r[CHOOSE c \in DOMAIN r : Renamed(c, rename_cols) = c2]]))

\* No filter at all.
post_filter_rows_keep_all(rows, post_filter) == rows

\* _post_filter_kommuner_til_fylke, when there is one
post_filter_rows(rows, post_filter) ==
    IF post_filter = "endswith00"
    THEN SelectSeq(rows, LAMBDA r : endswith(r["kommuneregion"].s, "00"))
    ELSE rows

\* _postprocess_combined
_postprocess_combined(df, post_filter, rename_cols, klassvar) ==
    LET cast == MapColumns(df, Range(klassvar), astype_str)
    IN  rename(Frame(cast.cols, post_filter_rows(cast.rows, post_filter)),
               rename_cols)

\* A variant of the last two statements of hierarki that filters the
\* aggregated rows before they are put beneath the original ones.
combine_filter_aggregated_only(original, agg, v, klassvar) ==
    concat(_postprocess_combined(original, "", v.rename_cols, klassvar),
           _postprocess_combined(agg, v.post_filter, v.rename_cols, klassvar))

\* The last two statements of hierarki: concatenate, then post-process.
combine(original, agg, v, klassvar) ==
    _postprocess_combined(concat(original, agg), v.post_filter, v.rename_cols,
                          klassvar)

(***************************************************************************)
(* gjennomsnitt_aggregerte_regioner, called with cols = ["personer"] and   *)
(* the defaults denom_col = "teller", decimals = None,                     *)
(* restore_original_dtype = True.                                          *)
(***************************************************************************)
GjCols == {"personer"}

\* Rounding of num/den to an integer with halves going up.
round_half_up(num, den) ==
    LET q == num \div den
        r == num % den
    IN  IF 2 * r < den THEN q ELSE q + 1

\* numpy's rounding of num/den to an integer: halves go to the even side.
round_half_even(num, den) ==
    LET q == num \div den
        r == num % den
    IN  IF 2 * r < den THEN q
        ELSE IF 2 * r > den THEN q + 1
        ELSE IF q % 2 = 0 THEN q ELSE q + 1

\* df["teller"] = 1
with_teller(df) ==
    Frame(Append(df.cols, "teller"),
          MapSeq(df.rows,
                 LAMBDA r : [c \in DOMAIN r \cup {"teller"} |->
                                IF c = "teller" THEN IntV(1) ELSE r[c]]))

\* drop(columns=["teller"]) alone: the sums stay as they are.
gjennomsnitt_uten_deling(df) ==
    Frame(SelectSeq(df.cols, LAMBDA c : c # "teller"),
          MapSeq(df.rows, LAMBDA r : [c \in DOMAIN r \ {"teller"} |-> r[c]]))

\* The loop over cols, then drop(columns=["teller"]).
gjennomsnitt(df) ==
    Frame(SelectSeq(df.cols, LAMBDA c : c # "teller"),
          MapSeq(df.rows,
                 LAMBDA r : [c \in DOMAIN r \ {"teller"} |->
                                IF c \in GjCols
                                THEN IntV(round_half_even(r[c].n, r["teller"].n))
                                ELSE r[c]]))

(***************************************************************************)
(* The tables and arguments hierarki is called with.                       *)
(***************************************************************************)
Regionskolonner == <<"kommuneregion", "fylkesregion", "bydelsregion">>

\* The registry as hierarki finds it.
StandardKlass ==
    [codes131 |-> <<"0301", "5001", "9999">>,
     codes127 |-> <<"0300", "5000", "9900">>,
     codes241 |-> <<"030101", "030102", "030116", "EAB">>,
     corr131_104 |-> <<Corr("0301", "0300"), Corr("5001", "5000")>>,
     corr131_112 |-> <<Corr("0301", "K1"), Corr("5001", "K1")>>,
     corr131_127 |-> <<Corr("0301", "0300"), Corr("5001", "5000"),
                       Corr("5001", "5055")>>,
     corr127_152 |-> <<Corr("0300", "KFK1"), Corr("5000", "KFK1")>>]

Overrides ==
    {None, "kommune_til_landet", "kommune_til_fylkeskommune",
     "fylkeskommune_til_kostraregion", "bydeler_til_EAB", "kommune_til_fylke"}

PeriodeCeller == {StrV("2025"), IntV(2025), StrV("2024"), NoneV}

\* Region codes as tables carry them: as numbers (the leading zero lost), as
\* text, and codes the mapping does not know.
RegionCeller(col) ==
    CASE col = "kommuneregion" -> {IntV(301), StrV("5001"), StrV("5000")}
      [] col = "fylkesregion" -> {IntV(300), StrV("5000"), StrV("9900")}
      [] col = "bydelsregion" -> {IntV(30101), StrV("030102"), StrV("030116")}

StandardRegion(col) ==
    CASE col = "kommuneregion" -> StrV("0301")
      [] col = "fylkesregion" -> StrV("0300")
      [] col = "bydelsregion" -> StrV("030101")

Svar == {"", "alder", " alder ,", "aldre"}

RowsUpTo(S, lo) == UNION {[1..k -> S] : k \in lo..MaxRows}

\* Tables that try the preconditions: any set of region columns, any mix of
\* period values, no further classification column.
PreconditionRows(rc) ==
    {[c \in {"periode", "personer"} \cup rc |->
         IF c = "periode" THEN p
         ELSE IF c = "personer" THEN IntV(1)
         ELSE StandardRegion(c)] : p \in PeriodeCeller}

PreconditionTables ==
    UNION {{Frame(<<"periode">>
                      \o SelectSeq(Regionskolonner, LAMBDA c : c \in rc)
                      \o <<"personer">>,
                  rows) : rows \in RowsUpTo(PreconditionRows(rc), 0)} :
           rc \in SUBSET Range(Regionskolonner)}

\* Tables that pass them: one period, one region column, the further
\* classification column alder.
AggregationTables(col) ==
    {Frame(<<"periode", col, "alder", "personer">>, rows) :
        rows \in RowsUpTo({[c \in {"periode", col, "alder", "personer"} |->
                               CASE c = "periode" -> StrV("2025")
                                 [] c = col -> r
                                 [] c = "alder" -> IntV(a)
                                 [] c = "personer" -> IntV(n)] :
                             r \in RegionCeller(col), a \in 1..2, n \in 2..3}, 1)}

Init ==
    /\ entry \in {"hierarki", "gjennomsnitt_aggregerte_regioner"}
    /\ pc = IF entry = "hierarki" THEN "h_periode" ELSE "g_start"
    /\ klass = StandardKlass
    /\ year = ""
    /\ mappingfil = IngenFrame
    /\ raised = NoError
    /\ inputfil = "caller"
    /\ inputfil_copy = "caller"
    /\ aggregeringstype \in IF entry = "hierarki" THEN Overrides ELSE {None}
    /\ \/ /\ svar = ""
          /\ \E t \in PreconditionTables :
                frames = [r \in Refs |-> IF r = "caller" THEN t ELSE IngenFrame]
       \/ /\ svar \in Svar
          /\ \E col \in Range(Regionskolonner) :
                /\ aggregeringstype \in {None} \cup valid_by_region(col)
                /\ \E t \in AggregationTables(col) :
                      frames = [r \in Refs |-> IF r = "caller" THEN t ELSE IngenFrame]
    /\ periode = ""
    /\ region_col = ""
    /\ valg = IngenValg
    /\ df_merged = IngenFrame
    /\ klassifikasjonsvariable = <<>>
    /\ statistikkvariable = <<>>
    /\ df_agg = IngenFrame
    /\ retur = IngenFrame
    /\ kall = <<>>
    /\ editor = EditorIdle
    /\ prompt = NoPrompt
    /\ args = NoArgs

(***************************************************************************)
(* The calls, statement by statement.                                      *)
(***************************************************************************)
Raise(e) == raised' = e /\ pc' = "raised"

Called(fn, arg) == Append(kall, [fn |-> fn, arg |-> arg])

\* gjennomsnitt_aggregerte_regioner: df = df.copy(); df["teller"] = 1; then
\* hierarki(df).
GjStart ==
    /\ pc = "g_start"
    /\ LET c == copy("caller", "df")
       IN  /\ frames' = [c.frames EXCEPT ![c.ref] = with_teller(c.frames[c.ref])]
           /\ inputfil' = c.ref
    /\ pc' = "h_periode"
    /\ UNCHANGED <<prompt, args, editor, entry, klass, year, mappingfil, raised, aggregeringstype, svar,
                   inputfil_copy, periode, region_col, valg, df_merged,
                   klassifikasjonsvariable, statistikkvariable, df_agg, retur, kall>>

\* hierarki: the copy, the period check, the cast of periode to text and the
\* year taken from the first row.
HCheckPeriode ==
    /\ pc = "h_periode"
    /\ LET c == copy(inputfil, "inputfil_copy")
           f == c.frames[c.ref]
           g == MapColumns(f, {"periode"}, astype_str)
       IN  /\ inputfil_copy' = c.ref
           /\ IF nunique(Column(f, "periode")) > 1
              THEN /\ frames' = c.frames
                   /\ Raise(Exception("KeyError", "Mer enn 1 periode i datasettet", <<>>))
                   /\ UNCHANGED periode
              ELSE /\ frames' = [c.frames EXCEPT ![c.ref] = g]
                   /\ IF g.rows = <<>>
                      THEN /\ Raise(Exception("IndexError", "index 0 is out of bounds", <<>>))
                           /\ UNCHANGED periode
                      ELSE /\ periode' = g.rows[1]["periode"].s
                           /\ pc' = "h_region"
                           /\ UNCHANGED raised
    /\ UNCHANGED <<prompt, args, editor, entry, klass, year, mappingfil, inputfil, aggregeringstype, svar,
                   region_col, valg, df_merged, klassifikasjonsvariable,
                   statistikkvariable, df_agg, retur, kall>>

HValidateRegion ==
    /\ pc = "h_region"
    /\ LET r == _validate_and_normalize_region_col(frames[inputfil_copy])
       IN  IF r.raised # NoError
           THEN Raise(r.raised) /\ UNCHANGED <<frames, region_col>>
           ELSE /\ frames' = [frames EXCEPT ![inputfil_copy] = r.df]
                /\ region_col' = r.col
                /\ pc' = "h_select"
                /\ UNCHANGED raised
    /\ UNCHANGED <<prompt, args, editor, entry, klass, year, mappingfil, inputfil, aggregeringstype, svar,
                   inputfil_copy, periode, valg, df_merged, klassifikasjonsvariable,
                   statistikkvariable, df_agg, retur, kall>>

HSelectMapping ==
    /\ pc = "h_select"
    /\ LET r == _select_mapping(aggregeringstype, region_col)
       IN  IF r.raised # NoError
           THEN Raise(r.raised) /\ UNCHANGED <<valg, mappingfil, kall>>
           ELSE /\ valg' = r.valg
                /\ mappingfil' = CallBuilder(r.valg.builder, periode)
                /\ kall' = Called(r.valg.builder, periode)
                /\ pc' = "h_merge"
                /\ UNCHANGED raised
    /\ UNCHANGED <<prompt, args, editor, entry, klass, year, frames, inputfil, aggregeringstype, svar,
                   inputfil_copy, periode, region_col, df_merged,
                   klassifikasjonsvariable, statistikkvariable, df_agg, retur>>

HMerge ==
    /\ pc = "h_merge"
    /\ df_merged' = Frame(frames[inputfil_copy].cols \o <<"from", "to">>,
                          merge(frames[inputfil_copy].rows, mappingfil.rows,
                                valg.join_col))
    /\ pc' = "h_definere"
    /\ UNCHANGED <<prompt, args, editor, entry, klass, year, mappingfil, raised, frames, inputfil,
                   aggregeringstype, svar, inputfil_copy, periode, region_col, valg,
                   klassifikasjonsvariable, statistikkvariable, df_agg, retur, kall>>

HDefinere ==
    /\ pc = "h_definere"
    /\ kall' = Called("definere_klassifikasjonsvariable", svar)
    /\ LET r == definere_klassifikasjonsvariable(frames[inputfil_copy], svar)
       IN  IF r.raised # NoError
           THEN /\ Raise(r.raised)
                /\ UNCHANGED <<frames, klassifikasjonsvariable, statistikkvariable>>
           ELSE /\ frames' = [frames EXCEPT ![inputfil_copy] = r.df]
                /\ klassifikasjonsvariable' = r.klassifikasjonsvariable
                /\ statistikkvariable' = r.statistikkvariable
                /\ pc' = "h_agg"
                /\ UNCHANGED raised
    /\ UNCHANGED <<prompt, args, editor, entry, klass, year, mappingfil, inputfil, aggregeringstype, svar,
                   inputfil_copy, periode, region_col, valg, df_merged, df_agg, retur>>

\* df_merged[replace_col] = df_merged["to"], then the grouped sums.
HAggregate ==
    /\ pc = "h_agg"
    /\ LET replaced ==
              Frame(df_merged.cols,
                    MapSeq(df_merged.rows,
                           LAMBDA r : [r EXCEPT ![valg.replace_col] = r["to"]]))
       IN  /\ df_merged' = replaced
           /\ df_agg' = groupby_sum(replaced, klassifikasjonsvariable,
                                    statistikkvariable)
    /\ pc' = "h_combine"
    /\ UNCHANGED <<prompt, args, editor, entry, klass, year, mappingfil, raised, frames, inputfil,
                   aggregeringstype, svar, inputfil_copy, periode, region_col, valg,
                   klassifikasjonsvariable, statistikkvariable, retur, kall>>

HCombine ==
    /\ pc = "h_combine"
    /\ retur' = combine(frames[inputfil_copy], df_agg, valg, klassifikasjonsvariable)
    /\ pc' = IF entry = "hierarki" THEN "returned" ELSE "g_mean"
    /\ UNCHANGED <<prompt, args, editor, entry, klass, year, mappingfil, raised, frames, inputfil,
                   aggregeringstype, svar, inputfil_copy, periode, region_col, valg,
                   df_merged, klassifikasjonsvariable, statistikkvariable, df_agg, kall>>

\* gjennomsnitt_aggregerte_regioner after hierarki has returned.
GjMean ==
    /\ pc = "g_mean"
    /\ retur' = gjennomsnitt(retur)
    /\ pc' = "returned"
    /\ UNCHANGED <<prompt, args, editor, entry, klass, year, mappingfil, raised, frames, inputfil,
                   aggregeringstype, svar, inputfil_copy, periode, region_col, valg,
                   df_merged, klassifikasjonsvariable, statistikkvariable, df_agg, kall>>

Next ==
    \/ GjStart
    \/ HCheckPeriode
    \/ HValidateRegion
    \/ HSelectMapping
    \/ HMerge
    \/ HDefinere
    \/ HAggregate
    \/ HCombine
    \/ GjMean

Spec == Init /\ [][Next]_vars

(***************************************************************************)
(* Properties.                                                             *)
(***************************************************************************)
\* hierarki has returned (to its caller, or into the averaging wrapper).
HierarkiReturned ==
    \/ entry = "hierarki" /\ pc = "returned"
    \/ pc = "g_mean"

\* A row as hierarki hands it back when it keeps it: the classification
\* cells as text, the region column under its new name.
Returnable(rows) ==
    rename(MapColumns(Frame(<<>>, rows), Range(klassifikasjonsvariable), astype_str),
           valg.rename_cols).rows

\* The original rows (period as text, region zero padded), as returnable.
OriginalRows == Returnable(frames[inputfil_copy].rows)

\* The name of the region column in the returned table.
RegionOut == Renamed(region_col, valg.rename_cols)

EndsIn00(r) == endswith(r[RegionOut].s, "00")

\* The original rows that are in the returned table, which lists them first.
KeptOriginals ==
    IF valg.post_filter = "" THEN OriginalRows
    ELSE SelectSeq(OriginalRows, EndsIn00)

\* The rows of the returned table beneath the original ones.
AggregatedOut ==
    SubSeq(retur.rows, Len(KeptOriginals) + 1, Len(retur.rows))

Inp == frames[inputfil_copy].rows

OtherKeys == SelectSeq(klassifikasjonsvariable, LAMBDA c : c # region_col)

KeyCombinations == {KeyOf(Inp[i], OtherKeys) : i \in DOMAIN Inp}

Parents == {mappingfil.rows[j].to : j \in DOMAIN mappingfil.rows}

\* The pairs (input row, mapping row) that link a row with keys k to parent p.
Links(p, k) ==
    {ij \in (DOMAIN Inp) \X (DOMAIN mappingfil.rows) :
        /\ KeyOf(Inp[ij[1]], OtherKeys) = k
        /\ Inp[ij[1]][region_col] = StrV(mappingfil.rows[ij[2]].from)
        /\ mappingfil.rows[ij[2]].to = p}

\* The aggregated rows of the returned table for parent p and keys k.
AggFor(p, k) ==
    {a \in DOMAIN AggregatedOut :
        /\ AggregatedOut[a][RegionOut] = StrV(p)
        /\ KeyOf(AggregatedOut[a], OtherKeys) = k}

RECURSIVE SumLinks(_, _)
SumLinks(L, c) ==
    IF L = {} THEN 0
    ELSE LET ij == CHOOSE x \in L : TRUE
         IN  Inp[ij[1]][c].n + SumLinks(L \ {ij}, c)

SumsRight(p, k) ==
    \A a \in AggFor(p, k) :
        \A i \in DOMAIN statistikkvariable :
            AggregatedOut[a][statistikkvariable[i]]
                = IntV(SumLinks(Links(p, k), statistikkvariable[i]))

JoinCombinations ==
    {pk \in Parents \X KeyCombinations : Links(pk[1], pk[2]) # {}}

TextPeriods ==
    {astype_str(frames["caller"].rows[i]["periode"]).s :
        i \in DOMAIN frames["caller"].rows}

PeriodError == Exception("KeyError", "Mer enn 1 periode i datasettet", <<>>)

PeriodChecked == pc \notin {"g_start", "h_periode"}

\* C4 as stated: once the period check is done, the 'more than one period'
\* error has been raised (and no table is returned) exactly when the period
\* column cast to text holds more than one distinct value; with exactly one
\* distinct text value the error is not raised and that value is the year the
\* mapping builder is called with.
C4_PeriodErrorIffSeveralTextValues ==
    PeriodChecked =>
        /\ raised = PeriodError <=> Cardinality(TextPeriods) > 1
        /\ raised = PeriodError => retur = IngenFrame
        /\ Cardinality(TextPeriods) = 1 =>
              /\ periode \in TextPeriods
              /\ \A i \in DOMAIN kall :
                    kall[i].fn \in Builders => kall[i].arg \in TextPeriods

\* The region columns of the caller's table.
RegionColsPresent ==
    {c \in {"kommuneregion", "fylkesregion", "bydelsregion"} :
        c \in Range(frames["caller"].cols)}

\* The call has come as far as region detection and detection is over.
DetectionDone ==
    /\ pc \notin {"g_start", "h_periode", "h_region"}
    /\ raised.exc \notin {"KeyError", "IndexError"} \/ region_col # ""

\* The call has gone on after region detection.
PastDetection == DetectionDone /\ raised.msg \notin
    {"Fant ingen gyldig regionkolonne", "Fant flere regionskolonner"}

\* C5: hierarki goes on after region detection only if exactly one of
\* kommuneregion, fylkesregion, bydelsregion is a column (and that one is the
\* region column); with none it raises ValueError 'Fant ingen gyldig
\* regionkolonne', with two or three ValueError 'Fant flere regionskolonner'
\* naming the columns found; in both cases nothing is built or returned.
C5_ExactlyOneRegionColumn ==
    DetectionDone =>
        /\ PastDetection => RegionColsPresent = {region_col}
        /\ Cardinality(RegionColsPresent) = 0 =>
              raised = Exception("ValueError", "Fant ingen gyldig regionkolonne", <<>>)
        /\ Cardinality(RegionColsPresent) >= 2 =>
              /\ raised.exc = "ValueError"
              /\ raised.msg = "Fant flere regionskolonner"
              /\ Range(raised.info) = RegionColsPresent
              /\ Len(raised.info) = Cardinality(RegionColsPresent)
        /\ ~PastDetection => kall = <<>> /\ retur = IngenFrame /\ pc = "raised"

\* C5 witness: a table with two region columns has been turned down, the
\* error naming both.
C5_Witness ==
    /\ pc = "raised"
    /\ raised.msg = "Fant flere regionskolonner"
    /\ Len(raised.info) = 2

DefaultType(col) ==
    CASE col = "kommuneregion" -> "kommune_til_landet"
      [] col = "fylkesregion" -> "fylkeskommune_til_kostraregion"
      [] col = "bydelsregion" -> "bydeler_til_EAB"

AllowList(col) ==
    CASE col = "kommuneregion" -> {"kommune_til_landet", "kommune_til_fylkeskommune"}
      [] col = "fylkesregion" -> {"fylkeskommune_til_kostraregion"}
      [] col = "bydelsregion" -> {"bydeler_til_EAB"}

BuilderOf(type) ==
    CASE type = "kommune_til_landet" -> "mapping_fra_kommune_til_landet"
      [] type = "kommune_til_fylkeskommune" -> "mapping_fra_kommune_til_fylkeskommune"
      [] type = "fylkeskommune_til_kostraregion" ->
            "mapping_fra_fylkeskommune_til_kostraregion"
      [] type = "bydeler_til_EAB" -> "mapping_bydeler_oslo"

BuilderCalls == SelectSeq(kall, LAMBDA k : k.fn \in Builders)

\* The region column is known and the mapping has been selected, or turned down.
SelectionDone == region_col # "" /\ pc # "h_select"

\* C6: without an override the aggregation type is the one of the region
\* column; with an override hierarki goes on only if the override is in the
\* allow-list of the region column and raises ValueError 'Inkonsekvent valg'
\* otherwise, calling no builder; the one builder called is the builder of
\* the resolved type, with the period as its year.
C6_TypeResolvedWithinAllowList ==
    SelectionDone =>
        /\ aggregeringstype = None =>
              valg.type = DefaultType(region_col) /\ raised.msg # "Inkonsekvent valg"
        /\ aggregeringstype # None =>
              IF aggregeringstype \in AllowList(region_col)
              THEN valg.type = aggregeringstype /\ raised.msg # "Inkonsekvent valg"
              ELSE /\ raised.exc = "ValueError"
                   /\ raised.msg = "Inkonsekvent valg"
                   /\ valg = IngenValg
                   /\ BuilderCalls = <<>>
                   /\ retur = IngenFrame
        /\ valg # IngenValg =>
              BuilderCalls = <<[fn |-> BuilderOf(valg.type), arg |-> periode]>>

\* C6 witness: an override that is the type of another region column has
\* been turned down.
C6_Witness ==
    /\ pc = "raised"
    /\ region_col = "fylkesregion"
    /\ aggregeringstype = "kommune_til_landet"
    /\ raised.msg = "Inkonsekvent valg"

KnownTypes ==
    {"kommune_til_landet", "kommune_til_fylkeskommune",
     "fylkeskommune_til_kostraregion", "bydeler_til_EAB"}

\* C7 as stated: an override that is none of the four known aggregation
\* types makes hierarki fail with ValueError 'Ukjent aggregeringstype',
\* which lists the valid types.
C7_UnknownOverrideIsUnknownType ==
    (SelectionDone /\ aggregeringstype \notin KnownTypes \cup {None}) =>
        /\ raised.exc = "ValueError"
        /\ raised.msg = "Ukjent aggregeringstype"
        /\ KnownTypes \subseteq Range(raised.info)

\* C8: no step of hierarki or gjennomsnitt_aggregerte_regioner changes the
\* caller's table, so it is the same after the call as before it, whether
\* the call returns or raises.
C8_CallerTableUnchanged ==
    [][frames'["caller"] = frames["caller"]]_vars

\* C8 witness: the call is over, and the text casts and the zero padding
\* have left the internal copy different from the caller's table.
C8_Witness ==
    /\ pc \in {"returned", "raised"}
    /\ inputfil_copy # "caller"
    /\ frames[inputfil_copy].rows # frames["caller"].rows
    /\ \E i \in DOMAIN frames["caller"].rows :
          \E c \in Range(Regionskolonner) \cap Range(frames["caller"].cols) :
              frames["caller"].rows[i][c].t = "int"

MappingReturned(builder) == pc = "returned" /\ entry = builder

RowsOf(from, to) == Count(mappingfil.rows, LAMBDA r : r = FromTo(from, to))

\* C9 as stated: for every code of the registry other than "9999" the
\* mapping has exactly one row (code padded to 4 digits, "EAK") and, unless
\* the code is the capital's, exactly one row (code padded, "EAKUO"); no row
\* is ("0301", "EAKUO") and no row has from = "9999".
C9_KommuneTilLandetRows ==
    MappingReturned("mapping_fra_kommune_til_landet") =>
        /\ \A i \in DOMAIN klass.codes131 :
              LET code == klass.codes131[i]
              IN  /\ code # "9999" => RowsOf(zfill(code, 4), "EAK") = 1
                  /\ (code # "9999" /\ zfill(code, 4) # "0301") =>
                        RowsOf(zfill(code, 4), "EAKUO") = 1
        /\ RowsOf("0301", "EAKUO") = 0
        /\ \A j \in DOMAIN mappingfil.rows : mappingfil.rows[j].from # "9999"

\* C10: the mapping of the boroughs never has "030116", "030117" or "EAB" in
\* from; every other code of the registry is in from exactly once, with
\* to = "EAB", and nothing else is; a registry of excluded codes only gives
\* an empty table with the columns from, to.
C10_BydelerOsloRows ==
    MappingReturned("mapping_bydeler_oslo") =>
        LET excluded == {"030116", "030117", "EAB"}
        IN  /\ \A j \in DOMAIN mappingfil.rows :
                  /\ mappingfil.rows[j].from \notin excluded
                  /\ mappingfil.rows[j].from \in Range(klass.codes241)
                  /\ mappingfil.rows[j].to = "EAB"
            /\ \A i \in DOMAIN klass.codes241 :
                  klass.codes241[i] \notin excluded =>
                      Count(mappingfil.rows,
                            LAMBDA r : r.from = klass.codes241[i]) = 1
            /\ mappingfil.cols = <<"from", "to">>
            /\ Range(klass.codes241) \subseteq excluded => mappingfil.rows = <<>>

\* C10 witness: a registry with an excluded and a served borough has given a
\* mapping with the served one.
C10_Witness ==
    /\ MappingReturned("mapping_bydeler_oslo")
    /\ {"030116", "EAB", "030101"} \subseteq Range(klass.codes241)
    /\ Len(mappingfil.rows) = 1

(***************************************************************************)
(* Direct calls of hjelpefunksjoner.definere_klassifikasjonsvariable: the  *)
(* caller's table is the argument and is cast in place.                    *)
(***************************************************************************)
DefinereKolonner == {"periode", "kommuneregion", "fylkesregion", "alder", "kjonn", "stat"}

\* What the operator may type: nothing, names, blanks, empty entries,
\* repeated names, a reserved name, a name that is no column.
DefinereSvar ==
    {"", " ", ",", "alder", "kjonn, alder , kjonn,  ", "alder,periode",
     "fylkesregion,kjonn", "aldre", "alder, aldre"}

DefinereTables ==
    {Frame(cols, rows) :
        cols \in DistinctSeqs(DefinereKolonner, MaxCols),
        rows \in {<<>>}} \cup
    {Frame(cols, <<[c \in Range(cols) |-> IntV(n)]>>) :
        cols \in DistinctSeqs(DefinereKolonner, MaxCols), n \in {7}}

InitDefinere ==
    /\ entry = "definere_klassifikasjonsvariable"
    /\ pc = "call"
    /\ klass = TomKlass
    /\ year = ""
    /\ mappingfil = IngenFrame
    /\ raised = NoError
    /\ \E t \in DefinereTables :
          frames = [r \in Refs |-> IF r = "caller" THEN t ELSE IngenFrame]
    /\ svar \in DefinereSvar
    /\ inputfil = "caller"
    /\ aggregeringstype = None
    /\ inputfil_copy = "caller"
    /\ periode = ""
    /\ region_col = ""
    /\ valg = IngenValg
    /\ df_merged = IngenFrame
    /\ klassifikasjonsvariable = <<>>
    /\ statistikkvariable = <<>>
    /\ df_agg = IngenFrame
    /\ retur = IngenFrame
    /\ kall = <<>>
    /\ editor = EditorIdle
    /\ prompt = NoPrompt
    /\ args = NoArgs

\* The call returns the two lists and leaves the table cast in place.
DefinereReturn ==
    /\ pc = "call"
    /\ LET r == definere_klassifikasjonsvariable(frames[inputfil], svar)
       IN  /\ r.raised = NoError
           /\ klassifikasjonsvariable' = r.klassifikasjonsvariable
           /\ statistikkvariable' = r.statistikkvariable
           /\ frames' = [frames EXCEPT ![inputfil] = r.df]
    /\ pc' = "returned"
    /\ UNCHANGED <<prompt, args, editor, entry, klass, year, mappingfil, raised, inputfil, aggregeringstype,
                   svar, inputfil_copy, periode, region_col, valg, df_merged, df_agg,
                   retur, kall>>

\* The cast of the classification columns raises: nothing is returned.
DefinereRaise ==
    /\ pc = "call"
    /\ LET r == definere_klassifikasjonsvariable(frames[inputfil], svar)
       IN  /\ r.raised # NoError
           /\ Raise(r.raised)
    /\ UNCHANGED <<prompt, args, editor, entry, klass, year, mappingfil, frames, inputfil, aggregeringstype,
                   svar, inputfil_copy, periode, region_col, valg, df_merged,
                   klassifikasjonsvariable, statistikkvariable, df_agg, retur, kall>>

NextDefinere ==
    \/ DefinereReturn
    \/ DefinereRaise

SpecDefinere == InitDefinere /\ [][NextDefinere]_vars

\* The names the operator meant by each answer: the entries between the
\* commas, trimmed, the empty ones dropped.
NamesTyped ==
    CASE svar = "alder" -> <<"alder">>
      [] svar = "kjonn, alder , kjonn,  " -> <<"kjonn", "alder", "kjonn">>
      [] svar = "alder,periode" -> <<"alder", "periode">>
      [] svar = "fylkesregion,kjonn" -> <<"fylkesregion", "kjonn">>
      [] svar = "aldre" -> <<"aldre">>
      [] svar = "alder, aldre" -> <<"alder", "aldre">>
      [] OTHER -> <<>>

FirstAt(seq, x) == CHOOSE i \in DOMAIN seq : seq[i] = x /\ \A j \in 1..(i - 1) : seq[j] # x

ReservedPresent ==
    SelectSeq(<<"periode", "kommuneregion", "fylkesregion", "bydelsregion">>,
              LAMBDA c : c \in Range(frames["caller"].cols))

DefinereReturned == entry = "definere_klassifikasjonsvariable" /\ pc = "returned"

DefinereDone ==
    entry = "definere_klassifikasjonsvariable" /\ pc \in {"returned", "raised"}

\* C12 as stated: the resolver has no error outcome; with a name typed that
\* is no column of the table it returns as usual, the name among the
\* classification variables.
C12_NoErrorOutcome ==
    DefinereDone =>
        /\ pc = "returned"
        /\ raised = NoError
        /\ Range(NamesTyped) \subseteq Range(klassifikasjonsvariable)

(***************************************************************************)
(* The registry requests of kommunekorr.kostra_kommunekorr and of the four *)
(* mapping builders, each of which may fail.                               *)
(***************************************************************************)
Request(kind, id) == [kind |-> kind, id |-> id]

\* The requests each function sends, in the order of its code.
Requests(fn) ==
    CASE fn = "kostra_kommunekorr" ->
            <<Request("KlassClassification", "131"),
              Request("KlassCorrespondence", "131-112"),
              Request("KlassCorrespondence", "131-104")>>
      [] fn = "mapping_bydeler_oslo" -> <<Request("KlassClassification", "241")>>
      [] fn = "mapping_fra_kommune_til_landet" ->
            <<Request("KlassCorrespondence", "131-104"),
              Request("KlassCorrespondence", "131-112"),
              Request("KlassClassification", "131"),
              Request("KlassClassification", "131")>>
      [] fn = "mapping_fra_kommune_til_fylkeskommune" ->
            <<Request("KlassCorrespondence", "131-127")>>
      [] fn = "mapping_fra_fylkeskommune_til_kostraregion" ->
            <<Request("KlassCorrespondence", "127-152"),
              Request("KlassClassification", "127"),
              Request("KlassClassification", "127")>>

\* The ways a request fails: HTTPError with its status code, or no answer.
RegistryFailures ==
    {Exception("HTTPError", "404", <<>>), Exception("HTTPError", "500", <<>>),
     Exception("ConnectionError", "", <<>>)}

\* What the caller of fn sees when request req of fn fails with e: the
\* except clause of kostra_kommunekorr around the 131 -> 112 request, and
\* nothing anywhere else.
surfaced(fn, req, e, y) ==
    IF /\ fn = "kostra_kommunekorr"
       /\ req = Request("KlassCorrespondence", "131-112")
       /\ e.exc = "HTTPError"
    THEN IF e.msg = "404"
         THEN Exception("ValueError",
                        "KOSTRA group correspondence (131 -> 112) was not found",
                        <<y \o "-01-01", y \o "-12-31">>)
         ELSE e
    ELSE e

\* pd.merge(left, corr, on="komm_nr", how="left"): every left row once per
\* matching correspondence row, once with a missing value when none matches.
RECURSIVE leftmerge(_, _, _)
leftmerge(left_rows, corr, col) ==
    IF left_rows = <<>> THEN <<>>
    ELSE LET l == Head(left_rows)
             hits == SelectSeq(corr, LAMBDA r : r.sourceCode = l["komm_nr"].s)
             with(v) == [c \in DOMAIN l \cup {col} |-> IF c = col THEN v ELSE l[c]]
         IN  (IF hits = <<>> THEN <<with(NAV)>>
              ELSE MapSeq(hits, LAMBDA r : with(StrV(r.targetCode))))
             \o leftmerge(Tail(left_rows), corr, col)

\* validate="1:m": the merge keys are unique in the left table.
unique_keys(rows) ==
    \A i, j \in DOMAIN rows : i # j => rows[i]["komm_nr"] # rows[j]["komm_nr"]

\* kostra_kommunekorr once the three requests are answered.
kostra_kommunekorr(y) ==
    LET kom == MapSeq(klass.codes131 \o <<"2111">>,
                      LAMBDA c : [komm_nr |-> StrV(c)])
        m1 == leftmerge(kom, klass.corr131_112, "kostra_gr")
        m2 == leftmerge(m1, klass.corr131_104, "fylke_nr")
        kept == SelectSeq(m2, LAMBDA r : r["komm_nr"] # StrV("9999"))
        cols == <<"komm_nr", "fylke_nr", "fylke_nr_eka", "kostra_gr", "landet",
                  "landet_u_oslo">>
        out(r) ==
            [c \in Range(cols) |->
                CASE c = "fylke_nr_eka" ->
                        IF isna(r["fylke_nr"]) THEN NAV
                        ELSE StrV("EKA" \o prefix(r["fylke_nr"].s, 2))
                  [] c = "landet" -> StrV("EAK Landet")
                  [] c = "landet_u_oslo" ->
                        IF r["komm_nr"] = StrV("0301") THEN NAV
                        ELSE StrV("EAKUO Landet uten Oslo")
                  [] OTHER -> r[c]]
    IN  IF ~unique_keys(kom) \/ ~unique_keys(m1)
        THEN [raised |-> Exception("MergeError", "not a one-to-many merge", <<>>),
              df |-> IngenFrame]
        ELSE IF ~unique_keys(m2)
        THEN [raised |->
                 Exception("ValueError", "Duplicates detected for municipality numbers",
                           SelectSeq(MapSeq(m2, LAMBDA r : r["komm_nr"].s),
                                     LAMBDA k : Count(m2, LAMBDA r : r["komm_nr"].s = k) > 1)),
              df |-> IngenFrame]
        ELSE [raised |-> NoError, df |-> Frame(cols, MapSeq(kept, out))]

\* The registry contents kostra_kommunekorr is checked against.
KommunekorrKlass ==
    {[TomKlass EXCEPT !.codes131 = k, !.corr131_112 = a, !.corr131_104 = b] :
        k \in {<<"0301", "5001", "9999">>, <<"0301", "2111">>},
        a \in {<<Corr("0301", "K1"), Corr("5001", "K2")>>,
               <<Corr("0301", "K1"), Corr("0301", "K2")>>},
        b \in {<<Corr("0301", "0300"), Corr("5001", "5000")>>,
               <<Corr("5001", "5000"), Corr("5001", "5055")>>}}

InitRegistry ==
    /\ entry \in Builders \cup {"kostra_kommunekorr"}
    /\ klass \in IF entry = "kostra_kommunekorr" THEN KommunekorrKlass
                 ELSE {StandardKlass}
    /\ year \in {"2024", "2025"}
    /\ pc = "request"
    /\ mappingfil = IngenFrame
    /\ raised = NoError
    /\ HIdle

\* The next request of the function is answered.
RequestAnswered ==
    /\ pc = "request"
    /\ Len(kall) < Len(Requests(entry))
    /\ kall' = Called(Requests(entry)[Len(kall) + 1], NoError)
    /\ UNCHANGED <<prompt, args, editor, entry, pc, klass, year, mappingfil, raised, frames, inputfil,
                   aggregeringstype, svar, inputfil_copy, periode, region_col, valg,
                   df_merged, klassifikasjonsvariable, statistikkvariable, df_agg,
                   retur>>

\* The next request of the function fails.
RequestFails ==
    /\ pc = "request"
    /\ Len(kall) < Len(Requests(entry))
    /\ \E e \in RegistryFailures :
          /\ kall' = Called(Requests(entry)[Len(kall) + 1], e)
          /\ Raise(surfaced(entry, Requests(entry)[Len(kall) + 1], e, year))
    /\ UNCHANGED <<prompt, args, editor, entry, klass, year, mappingfil, frames, inputfil,
                   aggregeringstype, svar, inputfil_copy, periode, region_col, valg,
                   df_merged, klassifikasjonsvariable, statistikkvariable, df_agg,
                   retur>>

\* All requests are answered: the function builds its table.
RegistryFinish ==
    /\ pc = "request"
    /\ Len(kall) = Len(Requests(entry))
    /\ IF entry = "kostra_kommunekorr"
       THEN LET r == kostra_kommunekorr(year)
            IN  /\ retur' = r.df
                /\ IF r.raised = NoError
                   THEN pc' = "returned" /\ UNCHANGED raised
                   ELSE Raise(r.raised)
                /\ UNCHANGED mappingfil
       ELSE /\ mappingfil' = CallBuilder(entry, year)
            /\ pc' = "returned"
            /\ UNCHANGED <<raised, retur>>
    /\ UNCHANGED <<prompt, args, editor, entry, klass, year, frames, inputfil, aggregeringstype, svar,
                   inputfil_copy, periode, region_col, valg, df_merged,
                   klassifikasjonsvariable, statistikkvariable, df_agg, kall>>

NextRegistry ==
    \/ RequestAnswered
    \/ RequestFails
    \/ RegistryFinish

SpecRegistry == InitRegistry /\ [][NextRegistry]_vars

\* The last request sent has failed with e.
LastRequestFailed(e) == kall # <<>> /\ kall[Len(kall)].arg = e

\* C13 as stated: a request that fails with HTTP 404 surfaces as a
\* ValueError naming the classification pair and the date range, whichever
\* request of kostra_kommunekorr or of a mapping builder it is, and every
\* other failure reaches the caller unchanged.
C13_NotFoundIsDomainError ==
    \A e \in RegistryFailures :
        LastRequestFailed(e) =>
            IF e = Exception("HTTPError", "404", <<>>)
            THEN /\ raised.exc = "ValueError"
                 /\ raised.info = <<year \o "-01-01", year \o "-12-31">>
            ELSE raised = e

(***************************************************************************)
(* enkel_editering.dataframe_cell_editor_mvp: the working copy, the change *)
(* log and the two callbacks apply_filter and commit_edit.                 *)
(***************************************************************************)
MAX_EDIT_ROWS == 250

ROW_ID == "__row_id__"

\* pandas.api.types predicates on the dtypes of the model's columns.
Upper == "ABCDEFGHIJKLMNOPQRSTUVWXYZ"

Lower == "abcdefghijklmnopqrstuvwxyz"

\* str.lower()
lower(s) ==
    LET low(ch) == IF \E i \in 1..26 : CharAt(Upper, i) = ch
                   THEN CharAt(Lower, CHOOSE i \in 1..26 : CharAt(Upper, i) = ch)
                   ELSE ch
        F[i \in 0..Len(s)] == IF i = 0 THEN "" ELSE F[i - 1] \o low(CharAt(s, i))
    IN  F[Len(s)]

is_extension_array_dtype(dtype) == dtype \in {"Int64", "string", "boolean"}
is_integer_dtype(dtype) == dtype \in {"int64", "Int64"}
is_bool_dtype(dtype) == dtype \in {"bool", "boolean"}

\* float(text) for texts of the form digits or digits.digits: whether the
\* text is a number, whether the number is whole, and its whole part.
Digits == "0123456789"

IsDigits(t) ==
    /\ Len(t) > 0
    /\ \A i \in 1..Len(t) : \E d \in 1..10 : CharAt(t, i) = CharAt(Digits, d)

RECURSIVE ToInt(_)
ToInt(t) ==
    IF Len(t) = 0 THEN 0
    ELSE 10 * ToInt(SubSeq(t, 1, Len(t) - 1))
         + (CHOOSE d \in 0..9 : CharAt(Digits, d + 1) = CharAt(t, Len(t)))

float(t) ==
    LET dots == {i \in 1..Len(t) : CharAt(t, i) = "."}
        dot == CHOOSE i \in dots : TRUE
        whole == SubSeq(t, 1, dot - 1)
        frac == SubSeq(t, dot + 1, Len(t))
    IN  IF dots = {}
        THEN IF IsDigits(t) THEN [ok |-> TRUE, is_integer |-> TRUE, n |-> ToInt(t)]
             ELSE [ok |-> FALSE, is_integer |-> FALSE, n |-> 0]
        ELSE IF Cardinality(dots) = 1 /\ IsDigits(whole) /\ IsDigits(frac)
        THEN [ok |-> TRUE, is_integer |-> ToInt(frac) = 0, n |-> ToInt(whole)]
        ELSE [ok |-> FALSE, is_integer |-> FALSE, n |-> 0]

\* The coercion that lets every column be set to missing.
coerce_value_lenient(dtype, raw_text, set_missing) ==
    LET text == strip(raw_text)
    IN  IF set_missing \/ text = ""
        THEN [raised |-> NoError, value |-> IF is_extension_array_dtype(dtype) THEN NAV ELSE NoneV]
        ELSE IF is_integer_dtype(dtype) /\ float(text).ok /\ float(text).is_integer
        THEN [raised |-> NoError, value |-> IntV(float(text).n)]
        ELSE [raised |-> NoError, value |-> StrV(text)]

\* coerce_value_for_column: the value for a column of the given dtype, or
\* the ValueError.
coerce_value_for_column(dtype, raw_text, set_missing) ==
    LET text == strip(raw_text)
        err(msg) == [raised |-> Exception("ValueError", msg, <<>>), value |-> NoneV]
        val(v) == [raised |-> NoError, value |-> v]
    IN  IF set_missing
        THEN IF is_extension_array_dtype(dtype) THEN val(NAV)
             ELSE IF is_integer_dtype(dtype) \/ is_bool_dtype(dtype)
             THEN err("cannot be set to missing because it is non-nullable dtype " \o dtype)
             ELSE val(NoneV)
        ELSE IF text = "" THEN err("New value is empty")
        ELSE IF is_integer_dtype(dtype)
        THEN IF float(text).ok /\ float(text).is_integer
             THEN val(IntV(float(text).n))
             ELSE err("is not a valid integer")
        ELSE IF is_bool_dtype(dtype)
        THEN IF lower(text) \in {"true", "1", "yes", "y"} THEN val(BoolV(TRUE))
             ELSE IF lower(text) \in {"false", "0", "no", "n"} THEN val(BoolV(FALSE))
             ELSE err("is not a valid boolean")
        ELSE val(StrV(text))

\* get_results: the working copy without the row identifier, and the log.
get_results(df_working, change_log) ==
    [df_final |->
        Frame(SelectSeq(df_working.cols, LAMBDA c : c # ROW_ID),
              MapSeq(df_working.rows,
                     LAMBDA r : [c \in DOMAIN r \ {ROW_ID} |-> r[c]])),
     log_df |-> change_log]

\* apply_filter: the closure after the click, for the texts in the filter
\* boxes.
apply_filter(ed, df_working, clear_commit_msg) ==
    LET boxes == ed.filter_boxes
        mask(r) ==
            \A c \in DOMAIN boxes :
                strip(boxes[c]) # "" => astype_str(r[c]).s = strip(boxes[c])
        current_slice == SelectSeq(df_working.rows, mask)
        n == Len(current_slice)
    IN  [ed EXCEPT
            !.edit_status = IF clear_commit_msg THEN "" ELSE @,
            !.current_slice = [set |-> TRUE, rows |-> current_slice],
            !.filter_status =
                IF n = 0 THEN "No rows matched"
                ELSE IF n > MAX_EDIT_ROWS THEN "Please narrow"
                ELSE "Matched",
            !.options =
                IF n = 0 \/ n > MAX_EDIT_ROWS THEN <<>>
                ELSE MapSeq(current_slice, LAMBDA r : r[ROW_ID])]

\* The reason box holds no reason.
reason_missing_unstripped(reason) == reason = ""

reason_missing(reason) == strip(reason) = ""

\* The loop of commit_edit over the target rows: the rows, the log and the
\* writes after it, and the exception that ended it early, if any.
\* int(rid) for the log entry: an integer, or ValueError for a text that is
\* no number.
int(rid) ==
    IF rid.t = "int" THEN [ok |-> TRUE, n |-> rid.n]
    ELSE IF rid.t = "str" /\ IsDigits(strip(rid.s))
    THEN [ok |-> TRUE, n |-> ToInt(strip(rid.s))]
    ELSE [ok |-> FALSE, n |-> 0]

\* One pass of the loop of commit_edit, for the target row rid: the rows,
\* the log and the writes after it, and the exception that ended the loop.
edit_row(rid, st, col, new_val, reason, klassvar) ==
    LET rows == st.rows
        hits == {i \in DOMAIN rows : rows[i][ROW_ID] = rid}
        idx == CHOOSE i \in hits : \A j \in hits : i <= j
        old_val == rows[idx][col]
        written == [rows EXCEPT ![idx][col] = new_val]
        write == [idx |-> idx, rid |-> rid, column |-> col, old_value |-> old_val,
                  new_value |-> new_val, reason |-> reason]
        log_entry == [row_id |-> int(rid).n, column |-> col,
                      old_value |-> old_val, new_value |-> new_val,
                      reason |-> reason,
                      id |-> [k \in Range(klassvar) |-> written[idx][k]]]
    IN  IF st.raised # NoError THEN st
        ELSE IF hits = {}
        THEN [st EXCEPT !.raised =
                 Exception("IndexError", "index 0 is out of bounds", <<>>)]
        ELSE IF isna(old_val) /\ isna(new_val) THEN st
        ELSE IF old_val.t = "na" \/ new_val.t = "na"
        THEN [st EXCEPT !.raised =
                 Exception("TypeError", "boolean value of NA is ambiguous", <<>>)]
        ELSE IF old_val = new_val THEN st
        ELSE IF ~int(rid).ok
        THEN [rows |-> written, log |-> st.log, writes |-> Append(st.writes, write),
              raised |-> Exception("ValueError", "invalid literal for int()", <<>>)]
        ELSE [rows |-> written, log |-> Append(st.log, log_entry),
              writes |-> Append(st.writes, write), raised |-> NoError]

\* The loop over the target rows, in their order: the first half of the
\* list, then the second half from where the first half ended.
RECURSIVE edit_rows(_, _, _, _, _, _)
edit_rows(target_rows, st, col, new_val, reason, klassvar) ==
    IF target_rows = <<>> THEN st
    ELSE IF Len(target_rows) = 1
    THEN edit_row(target_rows[1], st, col, new_val, reason, klassvar)
    ELSE LET half == Len(target_rows) \div 2
             first == edit_rows(SubSeq(target_rows, 1, half), st, col, new_val,
                                reason, klassvar)
         IN  IF first.raised # NoError THEN first
             ELSE edit_rows(SubSeq(target_rows, half + 1, Len(target_rows)), first,
                            col, new_val, reason, klassvar)

\* commit_edit: the closure and the working copy after the click.  An
\* exception raised inside the callback ends it where it stands.
commit_edit(ed, df_working, klassvar, col, raw_text, set_missing, apply_all, selected, reason) ==
    LET rejected(msg) ==
            [editor |-> [ed EXCEPT !.edit_status = msg], df_working |-> df_working,
             raised |-> NoError]
        target_rows ==
            IF apply_all THEN MapSeq(ed.current_slice.rows, LAMBDA r : r[ROW_ID])
            ELSE selected
        new_val == coerce_value_for_column(ed.dtypes[col], raw_text, set_missing)
        done == edit_rows(target_rows,
                          [rows |-> df_working.rows, log |-> ed.change_log,
                           writes |-> ed.writes, raised |-> NoError],
                          col, new_val.value, reason, klassvar)
        edited == Frame(df_working.cols, done.rows)
        logged == [ed EXCEPT !.change_log = done.log, !.writes = done.writes]
    IN  IF ~ed.current_slice.set \/ Len(ed.current_slice.rows) = 0
        THEN rejected("Nothing to edit")
        ELSE IF reason_missing(reason) THEN rejected("Reason is required")
        ELSE IF Len(target_rows) = 0 THEN rejected("No rows selected")
        ELSE IF new_val.raised # NoError THEN rejected(new_val.raised.msg)
        ELSE IF done.raised # NoError
        THEN [editor |-> logged, df_working |-> edited, raised |-> done.raised]
        ELSE [editor |->
                 apply_filter(
                     [logged EXCEPT !.edit_status =
                         IF done.writes # ed.writes THEN "Changes committed"
                         ELSE "No changes applied"],
                     edited, FALSE),
              df_working |-> edited, raised |-> NoError]

\* The largest number of cell writes after which a further commit is explored.
MaxLog == 2

EditorRow(p, r, n, m) ==
    [c \in {"periode", "kommuneregion", "personer", "merknad"} |->
        CASE c = "periode" -> p [] c = "kommuneregion" -> r
          [] c = "personer" -> n [] OTHER -> m]

EditorCols == <<"periode", "kommuneregion", "personer", "merknad">>

EditorDtypes(periode_dtype, personer_dtype) ==
    [c \in Range(EditorCols) |->
        CASE c = "periode" -> periode_dtype
          [] c = "personer" -> personer_dtype
          [] OTHER -> "object"]

\* A table with the caller's own column named like the row identifier.
WithRowIdColumn(t, ids, dtype) ==
    [df |-> Frame(Append(t.df.cols, ROW_ID),
                  [i \in DOMAIN t.df.rows |->
                      [c \in DOMAIN t.df.rows[i] \cup {ROW_ID} |->
                          IF c = ROW_ID THEN ids[i] ELSE t.df.rows[i][c]]]),
     dtypes |-> [c \in DOMAIN t.dtypes \cup {ROW_ID} |->
                    IF c = ROW_ID THEN dtype ELSE t.dtypes[c]]]

TextTable ==
    [df |-> Frame(EditorCols,
                  <<EditorRow(StrV("2024"), StrV("0301"), IntV(10), StrV("a")),
                    EditorRow(StrV("2025"), StrV("0301"), IntV(15), NoneV)>>),
     dtypes |-> EditorDtypes("object", "int64")]

\* A table with the period as a number and a nullable integer column with
\* a missing value.
NumberTable ==
    [df |-> Frame(<<"periode", "kommuneregion", "personer">>,
                  <<[periode |-> IntV(2024), kommuneregion |-> StrV("0301"),
                     personer |-> IntV(10)],
                    [periode |-> IntV(2024), kommuneregion |-> StrV("1103"),
                     personer |-> NAV]>>),
     dtypes |-> [periode |-> "int64", kommuneregion |-> "object",
                 personer |-> "Int64"]]

EmptyTable == [df |-> Frame(EditorCols, <<>>), dtypes |-> EditorDtypes("object", "int64")]

\* One row more than the editor lets the operator edit at a time.
BigTable ==
    [df |-> Frame(EditorCols,
                  [i \in 1..(MAX_EDIT_ROWS + 1) |->
                      EditorRow(StrV("2024"), StrV("0301"), IntV(10), StrV("a"))]),
     dtypes |-> EditorDtypes("object", "int64")]

OneRowTable ==
    [df |-> Frame(<<"periode", "kommuneregion", "personer">>,
                  <<[periode |-> StrV("2024"), kommuneregion |-> StrV("0301"),
                     personer |-> IntV(10)]>>),
     dtypes |-> [periode |-> "object", kommuneregion |-> "object",
                 personer |-> "int64"]]

\* One row with a boolean column.
FlagTable ==
    [df |-> Frame(<<"periode", "kommuneregion", "aktiv">>,
                  <<[periode |-> StrV("2024"), kommuneregion |-> StrV("0301"),
                     aktiv |-> BoolV(TRUE)]>>),
     dtypes |-> [periode |-> "object", kommuneregion |-> "object", aktiv |-> "bool"]]

EditorTables ==
    {EmptyTable, TextTable, NumberTable, BigTable, FlagTable,
     WithRowIdColumn(OneRowTable, <<IntV(7)>>, "int64"),
     WithRowIdColumn(OneRowTable, <<StrV("a")>>, "object")}

EditorSvar == {"", "aldre"}

FilterTexts == {"", " 2024 ", "1999"}

NewValueTexts == {"", "15", "x"}

ReasonTexts == {"", " ", "feil"}

\* The tuples SelectMultiple can hold: options picked, in the order shown.
Selections(options) ==
    {SelectSeq(options, LAMBDA o : o \in S) : S \in SUBSET Range(options)}

\* What the edit widgets can hold at a click on "Commit edit".  The text box
\* is not read when "Set to missing" is ticked, and the row selection is not
\* read when "Apply to ALL matched rows" is ticked, so one content of each
\* stands for all of them there.
CommitWidgets(options) ==
    {w \in [raw_text : NewValueTexts, set_missing : BOOLEAN, apply_all : BOOLEAN,
            selected : Selections(options)] :
        /\ w.set_missing => w.raw_text = ""
        /\ w.apply_all => w.selected = <<>>}

InitEditor ==
    /\ entry = "dataframe_cell_editor_mvp"
    /\ pc = "e_open"
    /\ klass = TomKlass
    /\ year = ""
    /\ mappingfil = IngenFrame
    /\ raised = NoError
    /\ \E t \in EditorTables :
          /\ frames = [r \in Refs |-> IF r = "caller" THEN t.df ELSE IngenFrame]
          /\ editor = [EditorIdle EXCEPT !.dtypes_in = t.dtypes]
    /\ args = NoArgs
    /\ prompt = NoPrompt
    /\ svar \in EditorSvar
    /\ inputfil = "caller"
    /\ aggregeringstype = None
    /\ inputfil_copy = "caller"
    /\ periode = ""
    /\ region_col = ""
    /\ valg = IngenValg
    /\ df_merged = IngenFrame
    /\ klassifikasjonsvariable = <<>>
    /\ statistikkvariable = <<>>
    /\ df_agg = IngenFrame
    /\ retur = IngenFrame
    /\ kall = <<>>

\* dataframe_cell_editor_mvp up to the display of the widgets: the working
\* copy, the row identifier, the two lists of columns and the empty log.
EditorOpen ==
    /\ pc = "e_open"
    /\ LET c == copy(inputfil, "df_working")
           df_copy == c.frames[c.ref]
           with_id ==
               IF ROW_ID \in Range(df_copy.cols) THEN df_copy
               ELSE Frame(Append(df_copy.cols, ROW_ID),
                          [i \in DOMAIN df_copy.rows |->
                              [k \in DOMAIN df_copy.rows[i] \cup {ROW_ID} |->
                                  IF k = ROW_ID THEN IntV(i - 1)
                                  ELSE df_copy.rows[i][k]]])
           r == definere_klassifikasjonsvariable(with_id, svar)
       IN  /\ frames' = [c.frames EXCEPT ![c.ref] = r.df]
           /\ raised' = r.raised
           /\ pc' = IF r.raised = NoError THEN "e_ready" ELSE "raised"
           /\ klassifikasjonsvariable' =
                 IF r.raised = NoError THEN r.klassifikasjonsvariable ELSE <<>>
           /\ statistikkvariable' =
                 IF r.raised = NoError THEN r.statistikkvariable ELSE <<>>
           /\ editor' =
                 [editor EXCEPT
                     !.df_working = c.ref,
                     !.dtypes =
                         [k \in Range(with_id.cols) |->
                             IF k \in Range(r.klassifikasjonsvariable) THEN "string"
                             ELSE IF k \in DOMAIN editor.dtypes_in
                             THEN editor.dtypes_in[k]
                             ELSE "int64"],
                     !.filter_boxes =
                         [k \in Range(r.klassifikasjonsvariable) |-> ""]]
    /\ UNCHANGED <<prompt, args, entry, klass, year, mappingfil, inputfil, aggregeringstype, svar,
                   inputfil_copy, periode, region_col, valg, df_merged, df_agg,
                   retur, kall>>

\* The operator types a text into the filter box of the period.
TypeFilter ==
    /\ pc = "e_ready"
    /\ "periode" \in DOMAIN editor.filter_boxes
    /\ \E text \in FilterTexts :
          /\ text # editor.filter_boxes["periode"]
          /\ editor' = [editor EXCEPT !.filter_boxes["periode"] = text]
    /\ UNCHANGED <<prompt, args, entry, pc, klass, year, mappingfil, raised, frames, inputfil,
                   aggregeringstype, svar, inputfil_copy, periode, region_col, valg,
                   df_merged, klassifikasjonsvariable, statistikkvariable, df_agg,
                   retur, kall>>

\* A click on "Apply filter".
ApplyFilter ==
    /\ pc = "e_ready"
    /\ editor' = apply_filter([editor EXCEPT !.callback_raised = NoError],
                              frames[editor.df_working], TRUE)
    /\ UNCHANGED <<prompt, args, entry, pc, klass, year, mappingfil, raised, frames, inputfil,
                   aggregeringstype, svar, inputfil_copy, periode, region_col, valg,
                   df_merged, klassifikasjonsvariable, statistikkvariable, df_agg,
                   retur, kall>>

\* A click on "Commit edit" with the edit widgets as the operator left them.
CommitEdit ==
    /\ pc = "e_ready"
    /\ Len(editor.writes) < MaxLog
    /\ \E col \in Range(statistikkvariable), edit \in CommitWidgets(editor.options),
          reason \in ReasonTexts :
          LET r == commit_edit([editor EXCEPT !.callback_raised = NoError],
                               frames[editor.df_working], klassifikasjonsvariable,
                               col, edit.raw_text, edit.set_missing, edit.apply_all,
                               edit.selected, reason)
          IN  /\ editor' = [r.editor EXCEPT !.callback_raised = r.raised]
              /\ frames' = [frames EXCEPT ![editor.df_working] = r.df_working]
    /\ UNCHANGED <<prompt, args, entry, pc, klass, year, mappingfil, raised, inputfil,
                   aggregeringstype, svar, inputfil_copy, periode, region_col, valg,
                   df_merged, klassifikasjonsvariable, statistikkvariable, df_agg,
                   retur, kall>>

\* The caller invokes the returned get_results.
GetResults ==
    /\ pc = "e_ready"
    /\ LET r == get_results(frames[editor.df_working], editor.change_log)
       IN  /\ retur' = r.df_final
           /\ editor' = [editor EXCEPT !.log_df = r.log_df]
    /\ UNCHANGED <<prompt, args, entry, pc, klass, year, mappingfil, raised, frames, inputfil,
                   aggregeringstype, svar, inputfil_copy, periode, region_col, valg,
                   df_merged, klassifikasjonsvariable, statistikkvariable, df_agg,
                   kall>>

NextEditor ==
    \/ EditorOpen
    \/ TypeFilter
    \/ ApplyFilter
    \/ CommitEdit
    \/ GetResults

SpecEditor == InitEditor /\ [][NextEditor]_vars

(***************************************************************************)
(* Properties of the cell editor.                                          *)
(***************************************************************************)
EditorReady == entry = "dataframe_cell_editor_mvp" /\ pc = "e_ready"

WorkingCopy == frames[editor.df_working]

\* The filter applied last matched more rows than the editor lets one edit.
TooManyMatched ==
    /\ editor.current_slice.set
    /\ Len(editor.current_slice.rows) > MAX_EDIT_ROWS

\* C14: while the filter applied last matched more than 250 rows, no commit
\* changes a cell of the working copy, whichever way its target rows are
\* chosen.
C14_NoEditWhileTooManyMatched ==
    [][(EditorReady /\ TooManyMatched) => WorkingCopy' = WorkingCopy]_vars

IsPrefix(s, t) == Len(s) <= Len(t) /\ SubSeq(t, 1, Len(s)) = s

\* The log entry at position i describes the write at position i.
EntryOfWrite(e, w) ==
    /\ w.rid.t = "int" /\ e.row_id = w.rid.n
    /\ e.column = w.column
    /\ e.old_value = w.old_value
    /\ e.new_value = w.new_value
    /\ w.old_value # w.new_value

\* C15: the change log only grows at its end, holds one entry for each
\* write to a cell of the working copy, in the order of the writes, each
\* with the row id, column, old and new value of its write, and no write
\* stores the value the cell already had.
C15_LogMatchesWrites ==
    [][EditorReady =>
          /\ IsPrefix(editor.change_log, editor'.change_log)
          /\ Len(editor'.change_log) = Len(editor'.writes)
          /\ \A i \in DOMAIN editor'.change_log :
                EntryOfWrite(editor'.change_log[i], editor'.writes[i])]_vars

InEditor == entry = "dataframe_cell_editor_mvp"

\* C16: no step of the editor, from its construction through every filter
\* and commit, changes the table the caller passed; the edits go to the
\* working copy, an object of its own.
C16_CallerTableNeverEdited ==
    [][InEditor =>
          /\ frames'["caller"] = frames["caller"]
          /\ editor'.df_working # "caller"
          /\ (editor'.writes # editor.writes => WorkingCopy' # WorkingCopy)]_vars

C16_Witness ==
    /\ EditorReady
    /\ Len(editor.change_log) > 0
    /\ \E i \in DOMAIN WorkingCopy.rows :
          WorkingCopy.rows[i]["personer"] # frames["caller"].rows[i]["personer"]

\* C17: every entry of the change log, and every write to the working
\* copy, was made with a reason that is not empty and not only blanks.
C17_EveryEntryHasReason ==
    EditorReady =>
        /\ \A i \in DOMAIN editor.change_log :
              strip(editor.change_log[i].reason) # ""
        /\ \A i \in DOMAIN editor.writes : strip(editor.writes[i].reason) # ""

C17_Witness ==
    /\ EditorReady
    /\ Len(editor.change_log) = 2
    /\ editor.change_log[2].reason = "feil"

\* What get_results would return in the current state.
Exported == get_results(WorkingCopy, editor.change_log)

\* C18: get_results() before any commit returns the input table, same
\* columns and same values, and an empty log; in every state the exported
\* table has exactly the input's columns, and the row identifier is a
\* column of the working copy but not of the exported table.
C18_ExportEqualsInput ==
    EditorReady =>
        /\ Exported.df_final.cols = frames["caller"].cols
        /\ ROW_ID \in Range(WorkingCopy.cols)
        /\ ROW_ID \notin Range(Exported.df_final.cols)
        /\ (retur # IngenFrame => retur.cols = frames["caller"].cols)
        /\ (editor.writes = <<>> =>
               /\ Exported.df_final = frames["caller"]
               /\ Exported.log_df = <<>>
               /\ (retur # IngenFrame =>
                      retur = frames["caller"] /\ editor.log_df = <<>>))

(***************************************************************************)
(* Properties of gjennomsnitt_aggregerte_regioner.                         *)
(***************************************************************************)
GjReturned ==
    /\ entry = "gjennomsnitt_aggregerte_regioner"
    /\ pc = "returned"

\* The input rows aggregated into the aggregated output row a.
LinksOf(a) == Links(a[RegionOut].s, KeyOf(a, OtherKeys))

\* v is num/den rounded to an integer, whichever way a half goes.
IsRounded(v, num, den) ==
    /\ 2 * (v * den - num) <= den
    /\ 2 * (num - v * den) <= den

\* The columns that hold plain sums in the result.
SummedOnly ==
    {c \in Range(statistikkvariable) : c \notin GjCols /\ c # "teller"}

HalfwayRows ==
    {i \in DOMAIN AggregatedOut :
        LET L == LinksOf(AggregatedOut[i])
        IN  2 * (SumLinks(L, "personer") % Cardinality(L)) = Cardinality(L)}

\* The integer below the mean of the aggregated row i.
Floor(i) ==
    LET L == LinksOf(AggregatedOut[i])
    IN  SumLinks(L, "personer") \div Cardinality(L)

\* C20 as stated: a mean exactly halfway between two integers is rounded
\* up, away from zero, and never to the even neighbour.
C20_HalfRoundsUp ==
    GjReturned =>
        \A i \in HalfwayRows : AggregatedOut[i]["personer"] = IntV(Floor(i) + 1)

\* C20 amended: a mean exactly halfway between two integers is rounded to
\* the even one of the two (5 over 2 rows yields 2, 7 over 2 rows yields 4);
\* the integer dtype is restored on that value.
C20_HalfRoundsToEven ==
    GjReturned =>
        \A i \in HalfwayRows :
            /\ AggregatedOut[i]["personer"].t = "int"
            /\ AggregatedOut[i]["personer"].n \in {Floor(i), Floor(i) + 1}
            /\ AggregatedOut[i]["personer"].n % 2 = 0

\* C20 witness: 5 over two rows has come out as 2.
C20_Witness ==
    /\ GjReturned
    /\ \E i \in HalfwayRows :
          /\ Cardinality(LinksOf(AggregatedOut[i])) = 2
          /\ SumLinks(LinksOf(AggregatedOut[i]), "personer") = 5
          /\ AggregatedOut[i]["personer"] = IntV(2)

(***************************************************************************)
(* avrunding._round_half_up.  A float is a sign and a magnitude counted in *)
(* units of 2^-FractionBits, with at most MantissaBits significant bits;   *)
(* every arithmetic step rounds its exact result to the nearest float,     *)
(* ties to the even mantissa, as IEEE 754 does.  float64 has 53 mantissa   *)
(* bits; the rule is the same at every width.                              *)
(***************************************************************************)
MantissaBits == 6

FractionBits == 8

\* The largest magnitude among the inputs, in whole numbers.
MaxWhole == 8

Unit == 2 ^ FractionBits

Half == 2 ^ (FractionBits - 1)

\* The spacing of the floats around the magnitude a/b.
RECURSIVE Spacing(_, _, _)
Spacing(a, b, sp) ==
    IF a < (2 ^ MantissaBits) * sp * b THEN sp ELSE Spacing(a, b, 2 * sp)

\* a/b rounded to an integer, halves to the even side.
NearestEven(a, b) ==
    LET q == a \div b
        r == a % b
    IN  IF 2 * r < b THEN q
        ELSE IF 2 * r > b THEN q + 1
        ELSE IF q % 2 = 0 THEN q ELSE q + 1

\* The float nearest to the magnitude a/b.
RoundToFloat(a, b) ==
    LET sp == Spacing(a, b, 1)
    IN  NearestEven(a, b * sp) * sp

IsFloat(n) == RoundToFloat(n, 1) = n

NaN == [kind |-> "nan", sign |-> 0, n |-> 0]

Float(sign, n) == [kind |-> "number", sign |-> IF n = 0 THEN 0 ELSE sign, n |-> n]

\* np.floor of a magnitude.
floor(n) == (n \div Unit) * Unit

\* _round_half_up for one value of the series:
\* np.sign(arr) * np.floor(np.abs(arr) * factor + 0.5) / factor
_round_half_up(x, decimals) ==
    LET factor == 10 ^ decimals
        scaled == RoundToFloat(x.n * factor, 1)
        shifted == RoundToFloat(scaled + Half, 1)
    IN  IF x.kind = "nan" THEN NaN
        ELSE Float(x.sign, RoundToFloat(floor(shifted), factor))

Decimals == {0, 1, 2}

Floats ==
    {NaN} \cup {Float(sg, n) : sg \in {-1, 1},
                              n \in {m \in 0..(MaxWhole * Unit) : IsFloat(m)}}

InitAvrunding ==
    /\ entry = "_round_half_up"
    /\ pc = "call"
    /\ klass = TomKlass
    /\ year = ""
    /\ mappingfil = IngenFrame
    /\ raised = NoError
    /\ LocalsIdle
    /\ \E x \in Floats, d \in Decimals : args = [values |-> x, decimals |-> d]

\* The call returns the rounded series.
RoundHalfUp ==
    /\ pc = "call"
    /\ entry = "_round_half_up"
    /\ retur' = _round_half_up(args.values, args.decimals)
    /\ pc' = "returned"
    /\ UNCHANGED <<prompt, args, editor, entry, klass, year, mappingfil, raised, frames,
                   inputfil, aggregeringstype, svar, inputfil_copy, periode,
                   region_col, valg, df_merged, klassifikasjonsvariable,
                   statistikkvariable, df_agg, kall>>

NextAvrunding == RoundHalfUp

SpecAvrunding == InitAvrunding /\ [][NextAvrunding]_vars

(***************************************************************************)
(* Properties of _round_half_up.                                           *)
(***************************************************************************)
RoundHalfUpReturned == entry = "_round_half_up" /\ pc = "returned"

\* The float nearest to the multiple of 10^-decimals nearest to the exact
\* value of x, a value exactly halfway going away from zero.
NearestMultiple(x, decimals) ==
    LET factor == 10 ^ decimals
        whole == (x.n * factor + Half) \div Unit
    IN  Float(x.sign, RoundToFloat(whole * Unit, factor))

Negated(x) == [x EXCEPT !.sign = -x.sign]

\* C21: _round_half_up returns, for a value whose scaled value is exactly an
\* integer plus one half, the neighbour farther from zero, for every other
\* value the nearest multiple of 10^-decimals, and for -x the negative of
\* what it returns for x.
C21_NearestWithHalvesAwayFromZero ==
    (RoundHalfUpReturned /\ args.values.kind = "number") =>
        /\ retur = NearestMultiple(args.values, args.decimals)
        /\ _round_half_up(Negated(args.values), args.decimals) = Negated(retur)

(***************************************************************************)
(* avrunding.konverter_dtypes.  Cells of float and boolean columns, the    *)
(* conversions of the six groups, and the loop over dtype_mapping.         *)
(***************************************************************************)

Abs(n) == IF n < 0 THEN -n ELSE n

\* pd.to_numeric(values, errors="coerce").astype(float) for one cell.
to_numeric(c) ==
    CASE c.t = "float" -> Float(IF c.n < 0 THEN -1 ELSE 1, Abs(c.n))
      [] c.t \in {"int", "bool"} -> Float(IF c.n < 0 THEN -1 ELSE 1, Abs(c.n) * Unit)
      [] c.t = "str" /\ IsDigits(strip(c.s)) -> Float(1, ToInt(strip(c.s)) * Unit)
      [] OTHER -> NaN

\* The cell of a float64 column for a float.
FloatCell(x) == IF x.kind = "nan" THEN NaNV ELSE FloatV(x.sign * x.n)

\* astype("Int64") of a rounded float.
ToInt64(x) == IF x.kind = "nan" THEN NAV ELSE IntV(x.sign * (x.n \div Unit))

\* The decimals of n / Unit, as str(float) prints them.
RECURSIVE StripZeros(_)
StripZeros(t) ==
    IF Len(t) > 1 /\ CharAt(t, Len(t)) = "0"
    THEN StripZeros(SubSeq(t, 1, Len(t) - 1)) ELSE t

FloatText(n) ==
    LET whole == Abs(n) \div Unit
        digits == ToString((Abs(n) % Unit) * (5 ^ FractionBits))
    IN  (IF n < 0 THEN "-" ELSE "") \o ToString(whole) \o "."
        \o StripZeros(zfill(digits, FractionBits))

\* Series.astype("string") for the cells of every dtype.
to_string(c) ==
    CASE c.t = "float" -> StrV(FloatText(c.n))
      [] c.t = "bool" -> StrV(IF c.n = 1 THEN "True" ELSE "False")
      [] c.t = "nan" -> NAV
      [] OTHER -> astype_string(c)

\* Series.astype("boolean") accepts booleans, 0 and 1, and missing values.
bool_like(c) ==
    \/ c.t \in {"bool", "none", "na", "nan"}
    \/ c.t = "int" /\ c.n \in {0, 1}
    \/ c.t = "float" /\ c.n \in {0, Unit}

to_boolean(c) ==
    IF c.t \in {"none", "na", "nan"} THEN NAV ELSE BoolV(c.n # 0)

KjenteGrupper ==
    {"klassifikasjonsvariabel", "heltall", "desimaltall_1_des",
     "desimaltall_2_des", "stringvar", "bool_var"}

\* The cell and the dtype of a column after the conversion of a group.
konvertert(gruppe, c) ==
    CASE gruppe = "klassifikasjonsvariabel" -> c
      [] gruppe = "heltall" -> ToInt64(_round_half_up(to_numeric(c), 0))
      [] gruppe = "desimaltall_1_des" -> FloatCell(_round_half_up(to_numeric(c), 1))
      [] gruppe = "desimaltall_2_des" -> FloatCell(_round_half_up(to_numeric(c), 2))
      [] gruppe = "stringvar" -> to_string(c)
      [] gruppe = "bool_var" -> to_boolean(c)

dtype_etter(gruppe) ==
    CASE gruppe = "klassifikasjonsvariabel" -> "category"
      [] gruppe = "heltall" -> "Int64"
      [] gruppe = "desimaltall_1_des" -> "float64"
      [] gruppe = "desimaltall_2_des" -> "float64"
      [] gruppe = "stringvar" -> "string"
      [] gruppe = "bool_var" -> "boolean"

MissingColumnWarning(kol) == <<"Kolonnen finnes ikke i dataframen", kol>>

UnknownGroupWarning(gruppe, kol) == <<"Ukjent gruppe", gruppe, kol>>

\* The loop body that gives up at the first offending entry.
konverter_kolonne_strict(st, gruppe, kol) ==
    IF st.raised # NoError THEN st
    ELSE IF kol \notin Range(st.df.cols) \/ gruppe \notin KjenteGrupper
    THEN [st EXCEPT !.raised = Exception("KeyError", kol, <<>>)]
    ELSE [st EXCEPT
             !.df = Frame(st.df.cols,
                          [i \in DOMAIN st.df.rows |->
                              [st.df.rows[i] EXCEPT ![kol] = konvertert(gruppe, @)]]),
             !.dtypes[kol] = dtype_etter(gruppe)]

\* One pass of the inner loop of konverter_dtypes, for one column of one
\* group: the table, the dtypes and the warnings after it.
konverter_kolonne(st, gruppe, kol) ==
    IF st.raised # NoError THEN st
    ELSE IF kol \notin Range(st.df.cols)
    THEN [st EXCEPT !.warnings = Append(@, MissingColumnWarning(kol))]
    ELSE IF gruppe \notin KjenteGrupper
    THEN [st EXCEPT !.warnings = Append(@, UnknownGroupWarning(gruppe, kol))]
    ELSE IF gruppe = "bool_var"
            /\ \E i \in DOMAIN st.df.rows : ~bool_like(st.df.rows[i][kol])
    THEN [st EXCEPT !.raised =
             Exception("TypeError", "Need to pass bool-like values", <<>>)]
    ELSE [st EXCEPT
             !.df = Frame(st.df.cols,
                          [i \in DOMAIN st.df.rows |->
                              [st.df.rows[i] EXCEPT ![kol] = konvertert(gruppe, @)]]),
             !.dtypes[kol] = dtype_etter(gruppe)]

\* The entries of dtype_mapping as (group, column) pairs, in loop order.
RECURSIVE Entries(_)
Entries(dtype_mapping) ==
    IF dtype_mapping = <<>> THEN <<>>
    ELSE [i \in DOMAIN Head(dtype_mapping).kolonner |->
             [gruppe |-> Head(dtype_mapping).gruppe,
              kol |-> Head(dtype_mapping).kolonner[i]]]
         \o Entries(Tail(dtype_mapping))

RECURSIVE konverter_loop(_, _)
konverter_loop(st, entries) ==
    IF entries = <<>> THEN st
    ELSE konverter_loop(konverter_kolonne(st, Head(entries).gruppe, Head(entries).kol),
                        Tail(entries))

\* The longest dtype_mapping tried.
MaxGroups == 2

Grupper == KjenteGrupper \cup {"ukjent"}

Kolonnelister ==
    {<<>>, <<"a">>, <<"b">>, <<"c">>, <<"mangler">>, <<"mangler", "mangler">>,
     <<"a", "mangler">>}

\* dtype_mapping is a dict: no group twice.  A column of the table is named
\* once at most.
Mappings ==
    {m \in UNION {[1..k -> [gruppe : Grupper, kolonner : Kolonnelister]] :
                     k \in 0..MaxGroups} :
        /\ \A i, j \in DOMAIN m : i # j => m[i].gruppe # m[j].gruppe
        /\ \A i, j \in DOMAIN Entries(m) :
              (i # j /\ Entries(m)[i].kol = Entries(m)[j].kol)
                  => Entries(m)[i].kol = "mangler"}

KonverterRow(a, b, c) ==
    [k \in {"a", "b", "c", "d"} |->
        CASE k = "a" -> a [] k = "b" -> b [] k = "c" -> c [] OTHER -> IntV(7)]

KonverterTables ==
    {Frame(<<"a", "b", "c", "d">>,
           <<KonverterRow(FloatV(Half), StrV("12"), IntV(0)),
             KonverterRow(FloatV(5 * Half), StrV("x"), IntV(1)),
             KonverterRow(FloatV(-5 * (Unit \div 4)), NoneV, IntV(1)),
             KonverterRow(NaNV, StrV("7"), IntV(last))>>) : last \in {0, 2}}

KonverterDtypes ==
    [k \in {"a", "b", "c", "d"} |->
        CASE k = "a" -> "float64" [] k = "b" -> "object" [] OTHER -> "int64"]

InitKonverter ==
    /\ entry = "konverter_dtypes"
    /\ pc = "call"
    /\ klass = TomKlass
    /\ year = ""
    /\ mappingfil = IngenFrame
    /\ raised = NoError
    /\ \E t \in KonverterTables :
          frames = [r \in Refs |-> IF r = "caller" THEN t ELSE IngenFrame]
    /\ \E m \in Mappings : args = [dtype_mapping |-> m, dtypes |-> KonverterDtypes]
    /\ inputfil = "caller"
    /\ aggregeringstype = None
    /\ svar = ""
    /\ inputfil_copy = "caller"
    /\ periode = ""
    /\ region_col = ""
    /\ valg = IngenValg
    /\ df_merged = IngenFrame
    /\ klassifikasjonsvariable = <<>>
    /\ statistikkvariable = <<>>
    /\ df_agg = IngenFrame
    /\ retur = IngenFrame
    /\ kall = <<>>
    /\ editor = EditorIdle
    /\ prompt = NoPrompt

\* konverter_dtypes from df.copy() to its return or to the exception of a
\* conversion; the warnings are printed after the loop.
Konverter ==
    /\ pc = "call"
    /\ entry = "konverter_dtypes"
    /\ LET c == copy(inputfil, "df")
           st == konverter_loop([df |-> c.frames[c.ref], dtypes |-> args.dtypes,
                                 warnings |-> <<>>, raised |-> NoError],
                                Entries(args.dtype_mapping))
       IN  /\ frames' = [c.frames EXCEPT ![c.ref] = st.df]
           /\ raised' = st.raised
           /\ IF st.raised = NoError
              THEN /\ pc' = "returned"
                   /\ retur' = [df |-> st.df, df_dtypes |-> st.dtypes]
                   /\ kall' = kall \o [i \in DOMAIN st.warnings |->
                                          [fn |-> "print", arg |-> st.warnings[i]]]
              ELSE /\ pc' = "raised"
                   /\ UNCHANGED <<retur, kall>>
    /\ UNCHANGED <<prompt, args, editor, entry, klass, year, mappingfil, inputfil,
                   aggregeringstype, svar, inputfil_copy, periode, region_col, valg,
                   df_merged, klassifikasjonsvariable, statistikkvariable, df_agg>>

NextKonverter == Konverter

SpecKonverter == InitKonverter /\ [][NextKonverter]_vars

\* The entries of the request that name a missing column or an unknown group.
Offending(m, cols) ==
    SelectSeq(Entries(m), LAMBDA e : e.kol \notin Range(cols) \/ e.gruppe \notin KjenteGrupper)

\* The entries of the request that ask for a conversion of a column.
Valid(m, cols) ==
    SelectSeq(Entries(m), LAMBDA e : e.kol \in Range(cols) /\ e.gruppe \in KjenteGrupper)

WarningOf(e, cols) ==
    IF e.kol \notin Range(cols) THEN MissingColumnWarning(e.kol)
    ELSE UnknownGroupWarning(e.gruppe, e.kol)

KonverterReturned == entry = "konverter_dtypes" /\ pc = "returned"

\* C22: konverter_dtypes never aborts because of an unknown group or a
\* missing column (an abort comes from a value a requested conversion cannot
\* take); it prints one warning for each offending (group, column) entry and
\* no other, applies every valid conversion of the request, leaves the
\* columns the request does not convert as they were, and returns a new
\* table while the caller's keeps its cells.
C22_WarnsAndConvertsTheRest ==
    [][Konverter =>
        LET m == args.dtype_mapping
            df == frames[inputfil]
            bad == Offending(m, df.cols)
            ok == Valid(m, df.cols)
        IN  /\ frames'[inputfil] = df
            /\ pc' = "raised" =>
                  \E i \in DOMAIN ok :
                      /\ ok[i].gruppe = "bool_var"
                      /\ \E r \in DOMAIN df.rows : ~bool_like(df.rows[r][ok[i].kol])
            /\ pc' = "returned" =>
                  /\ kall' = [i \in DOMAIN bad |->
                                 [fn |-> "print", arg |-> WarningOf(bad[i], df.cols)]]
                  /\ retur'.df.cols = df.cols
                  /\ DOMAIN retur'.df.rows = DOMAIN df.rows
                  /\ retur'.df \in {frames'[r] : r \in Refs \ {inputfil}}
                  /\ \A i \in DOMAIN ok :
                        /\ retur'.df_dtypes[ok[i].kol] = dtype_etter(ok[i].gruppe)
                        /\ \A r \in DOMAIN df.rows :
                              retur'.df.rows[r][ok[i].kol]
                                  = konvertert(ok[i].gruppe, df.rows[r][ok[i].kol])
                  /\ \A k \in Range(df.cols) \ {ok[i].kol : i \in DOMAIN ok} :
                        /\ retur'.df_dtypes[k] = args.dtypes[k]
                        /\ \A r \in DOMAIN df.rows :
                              retur'.df.rows[r][k] = df.rows[r][k]]_vars

C22_Witness ==
    /\ KonverterReturned
    /\ \E i, j \in DOMAIN kall : kall[i].arg[1] # kall[j].arg[1]
    /\ "heltall" \in {args.dtype_mapping[i].gruppe : i \in DOMAIN args.dtype_mapping}
    /\ retur.df_dtypes["a"] = "Int64"
    /\ retur.df.rows[2]["a"] = IntV(3)
    /\ frames[inputfil].rows[2]["a"] = FloatV(5 * Half)

(***************************************************************************)
(* hjelpefunksjoner.format_fil: fixed-width periode and alder, conditional *)
(* padding of the region columns, on the caller's table in place.          *)
(***************************************************************************)
\* Series.str.zfill(width) of a "string" column; a missing value stays missing.
str_zfill(c, width) == IF c.t = "str" THEN StrV(zfill(c.s, width)) ELSE c

\* file[col].astype("string").str.zfill(width), padding digit-only texts only.
fixed_width_digits_only(c, width) ==
    LET text == astype_string(c)
    IN  IF text.t = "str" /\ IsDigits(text.s) THEN str_zfill(text, width) ELSE text

\* file[col].astype("string").str.zfill(width)
fixed_width(c, width) == str_zfill(astype_string(c), width)

\* _conditional_pad for one cell: the mask is digits only and too short.
_conditional_pad(c, width) ==
    LET text == astype_string(c)
        mask == text.t = "str" /\ IsDigits(text.s) /\ Len(text.s) < width
    IN  IF mask THEN str_zfill(text, width) ELSE text

RegionWidths == [kommuneregion |-> 4, fylkesregion |-> 4, bydelsregion |-> 6]

\* The cell of column col after format_fil.
format_cell(col, c) ==
    CASE col = "periode" -> fixed_width(c, 4)
      [] col = "alder" -> fixed_width(c, 3)
      [] col \in DOMAIN RegionWidths -> _conditional_pad(c, RegionWidths[col])
      [] OTHER -> c

format_fil(file) ==
    [df |-> Frame(file.cols,
                  [i \in DOMAIN file.rows |->
                      [col \in DOMAIN file.rows[i] |-> format_cell(col, file.rows[i][col])]]),
     raised |-> IF Range(file.cols) \cap DOMAIN RegionWidths = {}
                THEN Exception("ValueError", "No valid region column", <<>>)
                ELSE NoError]

FormatCells ==
    {StrV(""), StrV("1"), StrV("23"), StrV("2025"), StrV("12345"), StrV("1234567"),
     StrV("1A"), StrV("AB12345"), IntV(301), NoneV}

FormatColumns ==
    {<<>>, <<"periode">>, <<"alder">>, <<"kommuneregion">>, <<"periode", "kommuneregion">>,
     <<"periode", "fylkesregion">>, <<"periode", "bydelsregion">>,
     <<"periode", "alder", "kommuneregion">>, <<"kommuneregion", "bydelsregion", "personer">>}

FormatTables ==
    UNION {{Frame(cols, <<row>>) : row \in [Range(cols) -> FormatCells]} : cols \in FormatColumns}

InitFormat ==
    /\ entry = "format_fil"
    /\ pc = "call"
    /\ klass = TomKlass
    /\ year = ""
    /\ mappingfil = IngenFrame
    /\ raised = NoError
    /\ \E t \in FormatTables :
          /\ frames = [r \in Refs |-> IF r = "caller" THEN t ELSE IngenFrame]
          /\ args = [file |-> t]
    /\ inputfil = "caller"
    /\ aggregeringstype = None
    /\ svar = ""
    /\ inputfil_copy = "caller"
    /\ periode = ""
    /\ region_col = ""
    /\ valg = IngenValg
    /\ df_merged = IngenFrame
    /\ klassifikasjonsvariable = <<>>
    /\ statistikkvariable = <<>>
    /\ df_agg = IngenFrame
    /\ retur = IngenFrame
    /\ kall = <<>>
    /\ editor = EditorIdle
    /\ prompt = NoPrompt

\* format_fil(file): the columns are assigned on the caller's table before the
\* test for a region column raises.
FormatFil ==
    /\ pc = "call"
    /\ entry = "format_fil"
    /\ LET r == format_fil(frames[inputfil])
       IN  /\ frames' = [frames EXCEPT ![inputfil] = r.df]
           /\ raised' = r.raised
           /\ pc' = IF r.raised = NoError THEN "returned" ELSE "raised"
           /\ retur' = IF r.raised = NoError THEN r.df ELSE retur
    /\ UNCHANGED <<prompt, args, editor, entry, klass, year, mappingfil, inputfil,
                   aggregeringstype, svar, inputfil_copy, periode, region_col, valg,
                   df_merged, klassifikasjonsvariable, statistikkvariable, df_agg, kall>>

NextFormat == FormatFil

SpecFormat == InitFormat /\ [][NextFormat]_vars

FormatDone == entry = "format_fil" /\ pc \in {"returned", "raised"}

CanonicalWidth(col) == IF col = "periode" THEN 4 ELSE RegionWidths[col]

\* The text of a cell, a missing value being missing.
TextOf(c) == astype_string(c)

DigitsAndShort(c, width) ==
    TextOf(c).t = "str" /\ IsDigits(TextOf(c).s) /\ Len(TextOf(c).s) < width

PaddedTo(c, width) == StrV(zfill(TextOf(c).s, width))

summere_over_kjonn(df, answer) ==
    LET summeringsvariabel == <<"kjonn">>
        alle_variable == df.cols
        d == definere_klassifikasjonsvariable(df, answer)
        groupby_variable ==
            SelectSeq(alle_variable,
                      LAMBDA x : x \notin Range(summeringsvariabel)
                                 /\ x \notin Range(d.statistikkvariable))
    IN  IF "kjonn" \notin Range(df.cols)
        THEN [raised |-> NoError, retur |-> df, df |-> df, prompted |-> FALSE]
        ELSE IF d.raised # NoError
        THEN [raised |-> d.raised, retur |-> IngenFrame, df |-> d.df, prompted |-> TRUE]
        ELSE IF groupby_variable = <<>>
        THEN [raised |-> Exception("ValueError", "No group keys passed!", <<>>),
              retur |-> IngenFrame, df |-> d.df, prompted |-> TRUE]
        ELSE [raised |-> NoError,
              retur |-> groupby_sum(df, groupby_variable, d.statistikkvariable),
              df |-> d.df, prompted |-> TRUE]

KjonnSvar == {"", "kjonn", "kjonn, aldre"}

KjonnRows(cols) ==
    {[c \in Range(cols) |->
         CASE c = "periode" -> StrV("2025")
           [] c = "kommuneregion" -> k
           [] c = "kjonn" -> IntV(g)
           [] OTHER -> IntV(n)] :
        k \in {StrV("0301"), StrV("1103"), NoneV}, g \in 1..2, n \in 1..2}

KjonnTables ==
    {Frame(cols, rows) :
        cols \in {<<"periode", "kommuneregion", "kjonn", "personer">>,
                  <<"periode", "kommuneregion", "personer">>,
                  <<"kjonn", "personer">>},
        rows \in {<<>>}} \cup
    UNION {{Frame(cols, rows) : rows \in RowsUpTo(KjonnRows(cols), 1)} :
              cols \in {<<"periode", "kommuneregion", "kjonn", "personer">>,
                        <<"periode", "kommuneregion", "personer">>,
                        <<"kjonn", "personer">>}}

InitKjonn ==
    /\ entry = "summere_over_kjonn"
    /\ pc = "call"
    /\ klass = TomKlass
    /\ year = ""
    /\ mappingfil = IngenFrame
    /\ raised = NoError
    /\ \E t \in KjonnTables :
          /\ frames = [r \in Refs |-> IF r = "caller" THEN t ELSE IngenFrame]
          /\ args = [inputfil |-> t]
    /\ svar \in KjonnSvar
    /\ inputfil = "caller"
    /\ aggregeringstype = None
    /\ inputfil_copy = "caller"
    /\ periode = ""
    /\ region_col = ""
    /\ valg = IngenValg
    /\ df_merged = IngenFrame
    /\ klassifikasjonsvariable = <<>>
    /\ statistikkvariable = <<>>
    /\ df_agg = IngenFrame
    /\ retur = IngenFrame
    /\ kall = <<>>
    /\ editor = EditorIdle
    /\ prompt = NoPrompt

\* summere_over_kjonn(inputfil) with the operator's answer svar.
SummereOverKjonn ==
    /\ pc = "call"
    /\ entry = "summere_over_kjonn"
    /\ LET r == summere_over_kjonn(frames[inputfil], svar)
       IN  /\ frames' = [frames EXCEPT ![inputfil] = r.df]
           /\ raised' = r.raised
           /\ pc' = IF r.raised = NoError THEN "returned" ELSE "raised"
           /\ retur' = r.retur
           /\ kall' = IF r.prompted THEN Append(kall, [fn |-> "input", arg |-> svar])
                      ELSE kall
    /\ UNCHANGED <<prompt, args, editor, entry, klass, year, mappingfil, inputfil,
                   aggregeringstype, svar, inputfil_copy, periode, region_col, valg,
                   df_merged, klassifikasjonsvariable, statistikkvariable, df_agg>>

NextKjonn == SummereOverKjonn

SpecKjonn == InitKjonn /\ [][NextKjonn]_vars

KjonnReturned == entry = "summere_over_kjonn" /\ pc = "returned"

\* The columns of the input that are neither kjonn nor summed.
KjonnKeys == SelectSeq(args.inputfil.cols, LAMBDA c : c \notin {"kjonn", "personer"})

\* C24: for a table with a kjonn column the table returned has no kjonn
\* column, has exactly one row for each combination of the other
\* classification variables found in the input, and every statistical column
\* of that row is the sum over the input rows of the combination; a table
\* without a kjonn column is returned as it was.
C24_SummedOverKjonn ==
    KjonnReturned =>
        IF "kjonn" \notin Range(args.inputfil.cols)
        THEN retur = args.inputfil
        ELSE LET combos == {KeyOf(args.inputfil.rows[i], KjonnKeys) :
                               i \in DOMAIN args.inputfil.rows}
             IN  /\ "kjonn" \notin Range(retur.cols)
                 /\ {KeyOf(retur.rows[i], KjonnKeys) : i \in DOMAIN retur.rows} = combos
                 /\ Len(retur.rows) = Cardinality(combos)
                 /\ \A i \in DOMAIN retur.rows :
                       retur.rows[i]["personer"].n
                           = SumCells(Column(Frame(args.inputfil.cols,
                                 SelectSeq(args.inputfil.rows,
                                           LAMBDA r : KeyOf(r, KjonnKeys)
                                                      = KeyOf(retur.rows[i], KjonnKeys))),
                                 "personer"))

(***************************************************************************)
(* validering._klass_check: the period test, the prompts for registry ids  *)
(* and the comparison of the columns with the registry's codes.            *)
(***************************************************************************)
\* str.lstrip("0")
RECURSIVE lstrip_zeros(_)
lstrip_zeros(s) ==
    IF Len(s) > 0 /\ CharAt(s, 1) = "0" THEN lstrip_zeros(SubSeq(s, 2, Len(s))) ELSE s

TOKENS == {"nan", "<na>", "none", "nul", "null", "na", "n/a", ""}

\* _is_valid_year for a cell of df["periode"].astype("string")
_is_valid_year(v) ==
    /\ v.t = "str"
    /\ strip(v.s) # ""
    /\ lower(lstrip_zeros(strip(v.s))) \notin TOKENS
    /\ Len(strip(v.s)) = 4
    /\ IsDigits(strip(v.s))

\* The tries the prompt loop starts with.
tries_at_start == 3

defaults == [kommuneregion |-> 231, fylkesregion |-> 232, bydelsregion |-> 241]

\* KlassClassification(klass_id).get_codes(...) against the registry reg: the
\* codes, or the exception of an id the registry does not serve.
get_codes(reg, klass_id) ==
    IF klass_id \in DOMAIN reg
    THEN [raised |-> NoError, codes |-> reg[klass_id]]
    ELSE [raised |-> Exception("HTTPError", "lookup failed", <<>>), codes |-> {}]

Logg(level, key, detail) == [fn |-> "logger." \o level, arg |-> <<key, detail>>]

\* Phase A that goes on with the first valid period when there are several.
PhaseA_first_period(df, klassvar) ==
    LET s == [i \in DOMAIN df.rows |-> astype_string(df.rows[i]["periode"])]
        valid_years == {s[i] : i \in {j \in DOMAIN s : _is_valid_year(s[j])}}
    IN  IF "periode" \in Range(klassvar) /\ "periode" \in Range(df.cols) /\ valid_years # {}
        THEN [periode |-> strip((CHOOSE v \in valid_years : TRUE).s),
              logg |-> Logg("info", "Checking", "")]
        ELSE [periode |-> "", logg |-> Logg("warning", "KLASS check skipped", "")]

\* Phase A: the single valid period, or the warning that ends the call.
PhaseA(df, klassvar) ==
    LET s == [i \in DOMAIN df.rows |-> astype_string(df.rows[i]["periode"])]
        unique == {s[i] : i \in DOMAIN s}
        valid_years == {v \in unique : _is_valid_year(v)}
        antall_perioder == Cardinality(valid_years)
    IN  IF "periode" \in Range(klassvar) /\ "periode" \in Range(df.cols)
        THEN IF antall_perioder = 1
             THEN [periode |-> strip((CHOOSE v \in valid_years : TRUE).s),
                   logg |-> Logg("info", "Checking", "")]
             ELSE IF antall_perioder = 0
             THEN [periode |-> "", logg |-> Logg("warning", "No valid 4-digit periode", "")]
             ELSE [periode |-> "", logg |-> Logg("warning", "valid periods", ToString(antall_perioder))]
        ELSE [periode |-> "", logg |-> Logg("warning", "Column periode not provided", "")]

\* One pass of the loop of _prompt_klass_id for column colname with the
\* answer raw (eof: input() raised EOFError): what is logged and called, and
\* the outcome: "skip", "again" (one try spent) or "accept".
prompt_once(reg, colname, raw, eof) ==
    LET inp == [fn |-> "input", arg |-> <<colname, raw>>]
        r == get_codes(reg, ToInt(strip(raw)))
        look == [fn |-> "KlassClassification", arg |-> <<"get_codes", strip(raw)>>]
    IN  IF eof
        THEN [outcome |-> "skip", kall |-> <<inp, Logg("warning", "Input not available", colname)>>]
        ELSE IF strip(raw) = ""
        THEN [outcome |-> "skip", kall |-> <<inp, Logg("warning", "User skipped", colname)>>]
        ELSE IF ~IsDigits(strip(raw))
        THEN [outcome |-> "again", kall |-> <<inp, Logg("warning", "Invalid input", colname)>>]
        ELSE IF r.raised # NoError
        THEN [outcome |-> "again", kall |-> <<inp, look, Logg("warning", "KLASS lookup failed", strip(raw))>>]
        ELSE IF r.codes = {}
        THEN [outcome |-> "again", kall |-> <<inp, look, Logg("warning", "returned no codes", strip(raw))>>]
        ELSE [outcome |-> "accept", kall |-> <<inp, look, Logg("info", "Verified KLASS ID", strip(raw))>>]

\* The same pass when a failed answer costs no try.
after_prompt_keeping_tries(p, outcome, klass_id) ==
    CASE outcome = "skip" -> [p EXCEPT !.cols = Tail(@), !.tries = tries_at_start]
      [] outcome = "accept" ->
            [p EXCEPT !.cols = Tail(@), !.tries = tries_at_start,
                      !.extra_map = Append(@, <<Head(p.cols), klass_id>>)]
      [] OTHER -> p

\* The locals after a pass: the next column on skip, accept or when the
\* tries are used up; one try less otherwise.
after_prompt(p, outcome, klass_id) ==
    CASE outcome = "skip" -> [p EXCEPT !.cols = Tail(@), !.tries = tries_at_start]
      [] outcome = "accept" ->
            [p EXCEPT !.cols = Tail(@), !.tries = tries_at_start,
                      !.extra_map = Append(@, <<Head(p.cols), klass_id>>)]
      [] outcome = "again" /\ p.tries > 1 -> [p EXCEPT !.tries = @ - 1]
      [] OTHER -> [p EXCEPT !.cols = Tail(@), !.tries = tries_at_start]

\* klass_ids = {**defaults, **extra_map}
klass_id_of(extra_map, col) ==
    IF \E i \in DOMAIN extra_map : extra_map[i][1] = col
    THEN (CHOOSE i \in DOMAIN extra_map : extra_map[i][1] = col
             /\ \A j \in DOMAIN extra_map : extra_map[j][1] = col => j <= i) \* the last wins
    ELSE 0

mapped(extra_map, col) ==
    col \in DOMAIN defaults \/ \E i \in DOMAIN extra_map : extra_map[i][1] = col

klass_ids(extra_map, col) ==
    IF \E i \in DOMAIN extra_map : extra_map[i][1] = col
    THEN extra_map[klass_id_of(extra_map, col)][2]
    ELSE defaults[col]

\* Phase C for the columns cols, in order: the calls and logs it makes, with
\* the ids fetched so far in cache.
RECURSIVE PhaseC(_, _, _, _, _)
PhaseC(reg, df, cols, extra_map, cache) ==
    IF cols = <<>> THEN <<>>
    ELSE LET col == Head(cols)
             rest(c) == PhaseC(reg, df, Tail(cols), extra_map, c)
             series == SelectSeq([i \in DOMAIN df.rows |-> astype_string(df.rows[i][col])],
                                 LAMBDA c : c.t = "str")
             dataset_codes == {strip(series[i].s) : i \in DOMAIN series}
             klass_id == klass_ids(extra_map, col)
             r == get_codes(reg, klass_id)
             look == IF klass_id \in cache THEN <<>>
                     ELSE <<[fn |-> "KlassClassification",
                             arg |-> <<"get_codes", ToString(klass_id)>>]>>
         IN  IF col = "periode" THEN rest(cache)
             ELSE IF ~mapped(extra_map, col)
             THEN <<Logg("info", "No KLASS mapping", col)>> \o rest(cache)
             ELSE IF col \notin Range(df.cols)
             THEN <<Logg("warning", "not found in data", col)>> \o rest(cache)
             ELSE IF series = <<>>
             THEN <<Logg("warning", "no non-missing values", col)>> \o rest(cache)
             ELSE IF r.raised # NoError
             THEN look \o <<Logg("error", "KLASS lookup failed", col)>> \o rest(cache)
             ELSE IF dataset_codes \ r.codes # {}
             THEN look \o <<Logg("error", "codes not present in KLASS", col),
                            [fn |-> "show_toggle", arg |-> <<col, "">>]>>
                       \o rest(cache \cup {klass_id})
             ELSE look \o <<Logg("info", "All codes are present", col)>>
                       \o rest(cache \cup {klass_id})

\* What the registry serves: everything asked for, or nothing at all.
Registries ==
    {[id \in {231, 232, 241, 277, 999} |->
         CASE id = 277 -> {"100"} [] id = 999 -> {} [] OTHER -> {"0301", "1103"}],
     [id \in {} |-> {}]}

\* The period column of the tables tried.
PeriodeKolonner ==
    {<<>>, <<StrV("2024")>>, <<StrV("0000")>>, <<StrV("20A4")>>, <<NoneV>>,
     <<StrV("2024"), StrV("2024")>>, <<StrV("2024"), StrV(" 2024")>>,
     <<StrV("2024"), StrV("2025")>>, <<StrV("2024"), StrV("20A4")>>,
     <<IntV(2024), StrV("2024")>>}

\* A table with the period column per and the region code k in every row.
KlassCheckTable(cols, per, k) ==
    Frame(cols,
          [i \in DOMAIN per |->
              [c \in Range(cols) |->
                  CASE c = "periode" -> per[i]
                    [] c = "kommuneregion" -> k
                    [] c = "funksjon" -> StrV("100")
                    [] OTHER -> StrV("1")]])

KlassCheckTables ==
    {KlassCheckTable(<<"periode", "kommuneregion", "funksjon", "avtaleform">>, per, StrV("0301")) :
        per \in PeriodeKolonner} \cup
    {KlassCheckTable(cols, <<StrV("2024")>>, StrV("9999")) :
        cols \in {<<"periode", "kommuneregion", "funksjon", "avtaleform">>,
                  <<"kommuneregion", "funksjon", "avtaleform">>}}

KlassCheckLists ==
    {<<>>, <<"periode", "kommuneregion">>, <<"kommuneregion", "funksjon">>,
     <<"periode", "kommuneregion", "funksjon">>,
     <<"periode", "funksjon", "avtaleform", "sektor">>}

\* What the operator types at a prompt.
KlassSvar == {"", "abc", " 277 ", "999"}

InitKlassCheck ==
    /\ entry = "_klass_check"
    /\ pc = "call"
    /\ klass = TomKlass
    /\ year = ""
    /\ mappingfil = IngenFrame
    /\ raised = NoError
    /\ \E t \in KlassCheckTables :
          frames = [r \in Refs |-> IF r = "caller" THEN t ELSE IngenFrame]
    /\ \E reg \in Registries, interactive \in BOOLEAN :
          args = [registry |-> reg, interactive |-> interactive]
    /\ klassifikasjonsvariable \in KlassCheckLists
    /\ inputfil = "caller"
    /\ aggregeringstype = None
    /\ svar = ""
    /\ inputfil_copy = "caller"
    /\ periode = ""
    /\ region_col = ""
    /\ valg = IngenValg
    /\ df_merged = IngenFrame
    /\ statistikkvariable = <<>>
    /\ df_agg = IngenFrame
    /\ retur = IngenFrame
    /\ kall = <<>>
    /\ editor = EditorIdle
    /\ prompt = NoPrompt

\* Phase A, and for a single valid period the list of the columns to ask for.
KlassPhaseA ==
    /\ pc = "call"
    /\ entry = "_klass_check"
    /\ LET df == frames[inputfil]
           a == PhaseA(df, klassifikasjonsvariable)
           unknown_cols ==
               SelectSeq(klassifikasjonsvariable,
                         LAMBDA c : c \notin {"periode"} \cup DOMAIN defaults
                                    /\ c \in Range(df.cols))
       IN  /\ periode' = a.periode
           /\ kall' = kall \o <<Logg("info", "Inspecting", ""), a.logg>>
           /\ IF a.periode = ""
              THEN pc' = "returned" /\ UNCHANGED prompt
              ELSE /\ pc' = "prompting"
                   /\ prompt' = [cols |-> unknown_cols, tries |-> tries_at_start,
                                 extra_map |-> <<>>]
    /\ UNCHANGED <<args, editor, entry, klass, year, mappingfil, raised, frames, inputfil,
                   aggregeringstype, svar, inputfil_copy, region_col, valg, df_merged,
                   klassifikasjonsvariable, statistikkvariable, df_agg, retur>>

\* One prompt of _prompt_klass_id and the operator's answer to it.
KlassPrompt ==
    /\ pc = "prompting"
    /\ prompt.cols # <<>>
    /\ args.interactive
    /\ \E raw \in KlassSvar, eof \in BOOLEAN :
          /\ eof => raw = ""
          /\ LET r == prompt_once(args.registry, Head(prompt.cols), raw, eof)
                 gave_up == r.outcome = "again" /\ prompt.tries = 1
             IN  /\ svar' = raw
                 /\ prompt' = after_prompt(prompt, r.outcome, ToInt(strip(raw)))
                 /\ kall' = kall \o r.kall
                               \o (IF gave_up
                                   THEN <<Logg("warning", "Giving up", Head(prompt.cols))>>
                                   ELSE <<>>)
    /\ UNCHANGED <<args, editor, entry, pc, klass, year, mappingfil, raised, frames, inputfil,
                   aggregeringstype, inputfil_copy, periode, region_col, valg, df_merged,
                   klassifikasjonsvariable, statistikkvariable, df_agg, retur>>

\* _prompt_klass_id in a non-interactive run: a warning and no prompt.
KlassNoPrompt ==
    /\ pc = "prompting"
    /\ prompt.cols # <<>>
    /\ ~args.interactive
    /\ prompt' = [prompt EXCEPT !.cols = Tail(@)]
    /\ kall' = Append(kall, Logg("warning", "No mapping provided", Head(prompt.cols)))
    /\ UNCHANGED <<args, editor, entry, pc, klass, year, mappingfil, raised, frames, inputfil,
                   aggregeringstype, svar, inputfil_copy, periode, region_col, valg,
                   df_merged, klassifikasjonsvariable, statistikkvariable, df_agg, retur>>

\* Phase C, once every column was asked for.
KlassPhaseC ==
    /\ pc = "prompting"
    /\ prompt.cols = <<>>
    /\ kall' = kall \o PhaseC(args.registry, frames[inputfil], klassifikasjonsvariable,
                              prompt.extra_map, {})
    /\ pc' = "returned"
    /\ UNCHANGED <<prompt, args, editor, entry, klass, year, mappingfil, raised, frames,
                   inputfil, aggregeringstype, svar, inputfil_copy, periode, region_col,
                   valg, df_merged, klassifikasjonsvariable, statistikkvariable, df_agg,
                   retur>>

NextKlassCheck == KlassPhaseA \/ KlassPrompt \/ KlassNoPrompt \/ KlassPhaseC

\* The call goes on whenever it can: every prompt is answered.
SpecKlassCheck == InitKlassCheck /\ [][NextKlassCheck]_vars /\ WF_vars(NextKlassCheck)

KlassCheckEntered == entry = "_klass_check" /\ pc # "call"

\* The distinct years of the period column: four digits once trimmed, not
\* all zeros.
YearsInPeriodColumn ==
    LET df == frames[inputfil]
        texts == IF "periode" \in Range(df.cols)
                 THEN {astype_string(df.rows[i]["periode"]) : i \in DOMAIN df.rows}
                 ELSE {}
    IN  {strip(c.s) : c \in {x \in texts : x.t = "str" /\ Len(strip(x.s)) = 4
                                           /\ IsDigits(strip(x.s))
                                           /\ strip(x.s) # "0000"}}

RegistryLookups == SelectSeq(kall, LAMBDA k : k.fn = "KlassClassification")

Prompts == SelectSeq(kall, LAMBDA k : k.fn = "input")

Warnings == SelectSeq(kall, LAMBDA k : k.fn = "logger.warning")

\* C25: the registry is contacted only when periode is among the
\* classification variables and the period column holds exactly one valid
\* year; with no valid year, with two or more, or without the period column
\* the call logs a warning and returns with no lookup and no prompt.
C25_RegistryOnlyForOnePeriod ==
    KlassCheckEntered =>
        LET one == /\ "periode" \in Range(klassifikasjonsvariable)
                   /\ Cardinality(YearsInPeriodColumn) = 1
        IN  /\ (RegistryLookups # <<>> \/ Prompts # <<>>) => one
            /\ ~one => /\ pc = "returned"
                       /\ Warnings # <<>>
                       /\ RegistryLookups = <<>>
                       /\ Prompts = <<>>

C25_Witness ==
    /\ KlassCheckEntered
    /\ pc = "returned"
    /\ YearsInPeriodColumn = {"2024", "2025"}
    /\ klassifikasjonsvariable = <<"periode", "kommuneregion", "funksjon">>
    /\ args.interactive
    /\ Warnings # <<>>
    /\ RegistryLookups = <<>>

\* The prompts for column col, in order.
PromptsFor(col) == SelectSeq(Prompts, LAMBDA k : k.arg[1] = col)

Accepted(col) == \E i \in DOMAIN prompt.extra_map : prompt.extra_map[i][1] = col

GaveUp(col) ==
    \E i \in DOMAIN kall : kall[i] = Logg("warning", "Giving up", col)

\* The columns of the request that have no default registry id.
ColumnsToAsk ==
    {c \in Range(klassifikasjonsvariable) :
        c \notin {"periode"} \cup DOMAIN defaults /\ c \in Range(frames[inputfil].cols)}

\* The column is no longer asked for.
Left(col) == pc = "returned" \/ col \notin Range(prompt.cols)

PromptLoopBounded ==
    KlassCheckEntered =>
        /\ ~args.interactive => Prompts = <<>>
        /\ \A col \in ColumnsToAsk :
              LET asked == PromptsFor(col)
                  last == asked[Len(asked)].arg[2]
              IN  /\ Len(asked) <= tries_at_start
                  /\ \A i \in 1..(Len(asked) - 1) : strip(asked[i].arg[2]) # ""
                  /\ (asked # <<>> /\ strip(last) = "") => Left(col) /\ ~Accepted(col)
                  /\ Accepted(col) =>
                        /\ Left(col)
                        /\ IsDigits(strip(last))
                        /\ get_codes(args.registry, ToInt(strip(last))).codes # {}
                  /\ (Len(asked) = tries_at_start /\ ~Accepted(col)) => Left(col)
                  /\ GaveUp(col) => Len(asked) = tries_at_start /\ ~Accepted(col)
                  /\ (Left(col) /\ args.interactive /\ periode # "") => asked # <<>>

\* C30: for every column without a default registry id the prompt loop ends
\* after at most three prompts: an empty answer skips the column at once, an
\* id the registry verifies is accepted at once, the third failed answer makes
\* the loop give up on the column; a non-interactive call prompts for nothing;
\* and the call returns.
C30_PromptLoopEnds == []PromptLoopBounded /\ <>(pc = "returned")

C30_Witness ==
    /\ KlassCheckEntered
    /\ pc = "returned"
    /\ Len(PromptsFor("funksjon")) = tries_at_start
    /\ GaveUp("funksjon")
    /\ Len(PromptsFor("avtaleform")) = 2
    /\ Accepted("avtaleform")

\* The table hierarki was called with.
HierarkiInput == frames[inputfil]

SeveralPeriods == nunique(Column(HierarkiInput, "periode")) > 1

RegionColumnsPresent ==
    SelectSeq(Regionskolonner, LAMBDA c : c \in Range(HierarkiInput.cols))

OverrideConsistent ==
    /\ Len(RegionColumnsPresent) = 1
    /\ aggregeringstype = None \/ aggregeringstype \in valid_by_region(RegionColumnsPresent[1])

InHierarki == pc \notin {"g_start", "h_periode"}

ResolverCalls == SelectSeq(kall, LAMBDA k : k.fn = "definere_klassifikasjonsvariable")

\* C26: hierarki tests the period first, then the region column, then the
\* override; a call that fails one of them has called no mapping builder and
\* has not prompted the operator; a call that succeeds has called one builder
\* and then the resolver, each once.
C26_ChecksBeforeBuilderAndPrompt ==
    InHierarki =>
        /\ SeveralPeriods =>
              /\ pc = "raised"
              /\ raised.msg = "Mer enn 1 periode i datasettet"
        /\ (~SeveralPeriods /\ HierarkiInput.rows # <<>> /\ Len(RegionColumnsPresent) # 1) =>
              /\ pc \in {"h_region", "raised"}
              /\ pc = "raised" => raised.exc = "ValueError" /\ raised.msg # "Inkonsekvent valg"
        /\ (~SeveralPeriods /\ HierarkiInput.rows # <<>> /\ Len(RegionColumnsPresent) = 1
                /\ ~OverrideConsistent) =>
              /\ pc \in {"h_region", "h_select", "raised"}
              /\ pc = "raised" => raised.msg = "Inkonsekvent valg"
        /\ (SeveralPeriods \/ ~OverrideConsistent) => kall = <<>>
        /\ Len(BuilderCalls) <= 1
        /\ Len(ResolverCalls) <= 1
        /\ ResolverCalls # <<>> => Len(kall) = 2 /\ kall[1].fn \in Builders
        /\ HierarkiReturned =>
              /\ Len(kall) = 2
              /\ kall[1] = [fn |-> valg.builder, arg |-> periode]
              /\ kall[2].fn = "definere_klassifikasjonsvariable"

C26_Witness ==
    /\ InHierarki
    /\ pc = "raised"
    /\ SeveralPeriods
    /\ Len(RegionColumnsPresent) = 2
    /\ aggregeringstype = "bydeler_til_EAB"
    /\ kall = <<>>

\* The row identifier the editor gave row i at construction.
RowIdAtConstruction(i) ==
    IF ROW_ID \in Range(frames["caller"].cols)
    THEN frames["caller"].rows[i][ROW_ID]
    ELSE IntV(i - 1)

\* C27: the row identifier column is not among the columns the editor
\* offers for editing, and after any commits every row of the working copy
\* still has the identifier it had at construction, so the identifiers of a
\* table that came without the column stay unique.
C27_RowIdsNeverChange ==
    EditorReady =>
        /\ ROW_ID \notin Range(statistikkvariable)
        /\ \A i \in DOMAIN WorkingCopy.rows :
              WorkingCopy.rows[i][ROW_ID] = RowIdAtConstruction(i)
        /\ ROW_ID \notin Range(frames["caller"].cols) =>
              \A i, j \in DOMAIN WorkingCopy.rows :
                  i # j => WorkingCopy.rows[i][ROW_ID] # WorkingCopy.rows[j][ROW_ID]

\* What the status line shows after a commit that was turned down.
Rejections ==
    {"Nothing to edit", "Reason is required", "No rows selected", "New value is empty",
     "is not a valid integer", "is not a valid boolean"}
    \cup {"cannot be set to missing because it is non-nullable dtype " \o d :
             d \in {"int64", "bool"}}

\* The value fits the dtype of the column it is written to.
FitsDtype(v, dtype) ==
    IF is_integer_dtype(dtype) THEN v.t = "int" \/ (dtype = "Int64" /\ v.t = "na")
    ELSE IF is_bool_dtype(dtype) THEN v.t = "bool"
    ELSE TRUE

OriginalCell(i, c) ==
    IF c \in Range(klassifikasjonsvariable)
    THEN astype_string(frames["caller"].rows[i][c])
    ELSE frames["caller"].rows[i][c]

\* The positions of the log entries for the row with identifier rid and
\* column c.
EntriesFor(rid, c) ==
    {k \in DOMAIN editor.change_log :
        /\ rid.t = "int"
        /\ editor.change_log[k].row_id = rid.n
        /\ editor.change_log[k].column = c}

\* The cell after the entries before position k were replayed.
ReplayedBefore(i, c, k) ==
    LET earlier == {j \in EntriesFor(RowIdAtConstruction(i), c) : j < k}
    IN  IF earlier = {} THEN OriginalCell(i, c)
        ELSE editor.change_log[CHOOSE j \in earlier : \A m \in earlier : m <= j].new_value

\* C29: replaying the change log in order onto the original table gives the
\* table get_results() returns: every cell holds the new value of the last
\* entry for its row id and column, or its original value when there is
\* none, and the old value of every entry is what the cell held just before
\* the entry's write.
C29_ReplayReproducesResult ==
    EditorReady =>
        \A i \in DOMAIN Exported.df_final.rows :
            \A c \in Range(Exported.df_final.cols) :
                /\ Exported.df_final.rows[i][c]
                      = ReplayedBefore(i, c, Len(editor.change_log) + 1)
                /\ \A k \in EntriesFor(RowIdAtConstruction(i), c) :
                      editor.change_log[k].old_value = ReplayedBefore(i, c, k)

====
